---- MODULE Spec2Model ----
(***************************************************************************)
(* A model of semaphore-rs: the Group (a Poseidon LeanIMT), the Identity   *)
(* (EdDSA on BabyJubjub) and the Proof orchestration around Groth16.       *)
(*                                                                         *)
(* Representation.                                                         *)
(*  - An Element ([u8; 32]) is a tuple: <<n>> is the array whose           *)
(*    little-endian integer value is n, and <<a, b>> is the array holding  *)
(*    the little-endian bytes of Poseidon2(a, b).  Poseidon2 and           *)
(*    Keccak-256 are free constructors: no two inputs collide.             *)
(*  - Byte strings are sequences of 0..255.  Widths are scaled so that     *)
(*    every integer fits TLC's integers: WIDTH bytes stand for the source's *)
(*    32, and the field orders are scaled with them.                       *)
(*  - The BabyJubjub group (order 8 * l, cyclic) is Z_(8 l): PointOf gives  *)
(*    the coordinates of the point with a given discrete logarithm to the  *)
(*    EIP-2494 generator; the Base point has logarithm COFACTOR.           *)
(***************************************************************************)
EXTENDS Integers, Sequences, FiniteSets, TLC

VARIABLES
  group,   \* the Group under operation: [tree |-> the LeanIMT's levels]
  last,    \* the last operation performed: its name, inputs and outcome
  files    \* the files on disk: the temporary directory and ./zkey

vars == <<group, last, files>>

(***************************************************************************)
(* Bounds of the model.                                                    *)
(***************************************************************************)
MaxSize == 4    \* leaves a Group may hold
MaxBatch == 2   \* elements in one Group::new / add_members call

(***************************************************************************)
(* Elements.                                                               *)
(***************************************************************************)
\* BN254 scalar field order q (the base field of BabyJubjub), scaled.
Q == 12289

EMPTY_ELEMENT == <<0>>

IsRaw(e) == Len(e) = 1

\* Fq::from_le_bytes_mod_order on an Element.
element_to_fq(e) == IF IsRaw(e) THEN <<e[1] % Q>> ELSE e

\* Poseidon::new_circom(2) on two Fq values: a free constructor.
Poseidon2(a, b) == <<a, b>>

\* PoseidonHash::hash on the 64 bytes l || r.
PoseidonHash(l, r) == Poseidon2(element_to_fq(l), element_to_fq(r))

(***************************************************************************)
(* LeanIMT (crate lean_imt).  nodes[k + 1] is level k; nodes[1] holds the  *)
(* leaves; positions are 0-based as in the source, At reads one.          *)
(***************************************************************************)
At(row, i) == row[i + 1]

RECURSIVE CeilLog2(_)
CeilLog2(n) == IF n <= 1 THEN 0 ELSE 1 + CeilLog2((n + 1) \div 2)

EmptyTree == << <<>> >>

TreeDepth(nodes) == Len(nodes) - 1
TreeSize(nodes) == Len(nodes[1])
TreeLeaves(nodes) == nodes[1]
\* Option<Element>: <<>> is None, <<e>> is Some(e).
TreeRoot(nodes) ==
  IF nodes[Len(nodes)] = <<>> THEN <<>> ELSE <<nodes[Len(nodes)][1]>>

SetOrPush(row, i, v) ==
  IF Len(row) <= i THEN Append(row, v) ELSE [row EXCEPT ![i + 1] = v]

RECURSIVE InsertLoop(_, _, _, _)
InsertLoop(nodes, node, index, level) ==
  IF level = TreeDepth(nodes)
  THEN [nodes EXCEPT ![level + 1] = <<node>>]
  ELSE LET stored == [nodes EXCEPT ![level + 1] = SetOrPush(@, index, node)]
           up == IF index % 2 = 1
                 THEN PoseidonHash(At(stored[level + 1], index - 1), node)
                 ELSE node
       IN InsertLoop(stored, up, index \div 2, level + 1)

\* LeanIMT::insert
TreeInsert(nodes, leaf) ==
  LET newDepth == CeilLog2(TreeSize(nodes) + 1)
      grown == IF TreeDepth(nodes) < newDepth THEN Append(nodes, <<>>) ELSE nodes
  IN InsertLoop(grown, leaf, TreeSize(nodes), 0)

RECURSIVE LevelLoop(_, _, _, _)
LevelLoop(nodes, level, index, count) ==
  IF index >= count THEN nodes
  ELSE LET row == nodes[level + 1]
           left == At(row, 2 * index)
           parent == IF 2 * index + 1 < Len(row)
                     THEN PoseidonHash(left, At(row, 2 * index + 1))
                     ELSE left
           stored == [nodes EXCEPT ![level + 2] = SetOrPush(@, index, parent)]
       IN LevelLoop(stored, level, index + 1, count)

RECURSIVE ManyLoop(_, _, _)
ManyLoop(nodes, level, start) ==
  IF level >= TreeDepth(nodes) THEN nodes
  ELSE ManyLoop(LevelLoop(nodes, level, start, (Len(nodes[level + 1]) + 1) \div 2),
                level + 1, start \div 2)

RECURSIVE Grow(_, _)
Grow(nodes, depth) ==
  IF TreeDepth(nodes) >= depth THEN nodes ELSE Grow(Append(nodes, <<>>), depth)

\* LeanIMT::insert_many; an empty batch is Err(EmptyBatchInsert).
TreeInsertMany(nodes, leaves) ==
  IF leaves = <<>> THEN [ok |-> FALSE, nodes |-> nodes]
  ELSE LET start == TreeSize(nodes) \div 2
           added == [nodes EXCEPT ![1] = @ \o leaves]
           grown == Grow(added, CeilLog2(Len(added[1])))
       IN [ok |-> TRUE, nodes |-> ManyLoop(grown, 0, start)]

\* LeanIMT::new
TreeNew(leaves) ==
  IF leaves = <<>> THEN EmptyTree
  ELSE IF Len(leaves) = 1 THEN TreeInsert(EmptyTree, leaves[1])
  ELSE TreeInsertMany(EmptyTree, leaves).nodes

RECURSIVE UpdateLoop(_, _, _, _)
UpdateLoop(nodes, node, index, level) ==
  IF level = TreeDepth(nodes)
  THEN [nodes EXCEPT ![level + 1] = <<node>>]
  ELSE LET stored == [nodes EXCEPT ![level + 1][index + 1] = node]
           row == stored[level + 1]
           up == IF index % 2 = 1 THEN PoseidonHash(At(row, index - 1), node)
                 ELSE IF index + 1 < Len(row) THEN PoseidonHash(node, At(row, index + 1))
                 ELSE node
       IN UpdateLoop(stored, up, index \div 2, level + 1)

\* LeanIMT::update; an index past the leaves is Err(IndexOutOfBounds).
TreeUpdate(nodes, index, leaf) ==
  IF index >= TreeSize(nodes) THEN [ok |-> FALSE, nodes |-> nodes]
  ELSE [ok |-> TRUE, nodes |-> UpdateLoop(nodes, leaf, index, 0)]

\* position of the first occurrence, as Option<usize>: <<>> or <<i>>.
TreeIndexOf(nodes, leaf) ==
  LET hits == {i \in 0..(TreeSize(nodes) - 1) : At(nodes[1], i) = leaf}
  IN IF hits = {} THEN <<>>
     ELSE <<CHOOSE i \in hits : \A j \in hits : i <= j>>

\* The siblings met on the way up from index, with the side at each.
RECURSIVE ProofLoop(_, _, _, _, _)
ProofLoop(nodes, index, level, siblings, path) ==
  IF level >= TreeDepth(nodes) THEN [siblings |-> siblings, path |-> path]
  ELSE LET right == (index % 2 = 1)
           sib == IF right THEN index - 1 ELSE index + 1
           row == nodes[level + 1]
       IN IF sib < Len(row)
          THEN ProofLoop(nodes, index \div 2, level + 1,
                         Append(siblings, At(row, sib)),
                         Append(path, IF right THEN 1 ELSE 0))
          ELSE ProofLoop(nodes, index \div 2, level + 1, siblings, path)

RECURSIVE Pow2(_)
Pow2(n) == IF n = 0 THEN 1 ELSE 2 * Pow2(n - 1)

RECURSIVE BitsToIndex(_, _)
BitsToIndex(path, k) ==
  IF k > Len(path) THEN 0 ELSE path[k] * Pow2(k - 1) + BitsToIndex(path, k + 1)

\* LeanIMT::generate_proof
TreeGenerateProof(nodes, index) ==
  IF index >= TreeSize(nodes) THEN [ok |-> FALSE]
  ELSE LET walk == ProofLoop(nodes, index, 0, <<>>, <<>>)
       IN [ok |-> TRUE,
           root |-> nodes[Len(nodes)][1],
           leaf |-> At(nodes[1], index),
           index |-> BitsToIndex(walk.path, 1),
           siblings |-> walk.siblings]

RECURSIVE VerifyLoop(_, _, _, _)
VerifyLoop(node, index, siblings, i) ==
  IF i > Len(siblings) THEN node
  ELSE VerifyLoop(IF index % 2 = 1
                  THEN PoseidonHash(siblings[i], node)
                  ELSE PoseidonHash(node, siblings[i]),
                  index \div 2, siblings, i + 1)

\* LeanIMT::verify_proof
TreeVerifyProof(proof) ==
  proof.root = VerifyLoop(proof.leaf, proof.index, proof.siblings, 1)

(***************************************************************************)
(* Group (src/src/group.rs): a wrapper around the hashed LeanIMT.  Every   *)
(* operator returns the outcome res ("Ok", an error's name, or "panic")    *)
(* and the group after the call.                                           *)
(***************************************************************************)
GroupDefault == [tree |-> EmptyTree]

HasEmpty(members) == \E k \in 1..Len(members) : members[k] = EMPTY_ELEMENT

root(g) == TreeRoot(g.tree)
\* A faulty depth: the number of levels, the root's level counted.
depth_levels(g) == Len(g.tree)
depth(g) == TreeDepth(g.tree)
size(g) == TreeSize(g.tree)
members(g) == TreeLeaves(g.tree)
index_of(g, member) == TreeIndexOf(g.tree, member)

\* A faulty Group::new: the last member is left out of the tree.
GroupNewDropLast(ms) ==
  IF ms = <<>> THEN [res |-> "Ok", group |-> [tree |-> TreeNew(<<>>)]]
  ELSE IF HasEmpty(ms) THEN [res |-> "EmptyLeaf", group |-> GroupDefault]
  ELSE [res |-> "Ok", group |-> [tree |-> TreeNew(SubSeq(ms, 1, Len(ms) - 1))]]

\* Group::new
GroupNew(ms) ==
  IF ms = <<>> THEN [res |-> "Ok", group |-> [tree |-> TreeNew(<<>>)]]
  ELSE IF HasEmpty(ms) THEN [res |-> "EmptyLeaf", group |-> GroupDefault]
  ELSE [res |-> "Ok", group |-> [tree |-> TreeNew(ms)]]

\* Group::add_member
add_member(g, member) ==
  IF member = EMPTY_ELEMENT THEN [res |-> "EmptyLeaf", group |-> g]
  ELSE [res |-> "Ok", group |-> [tree |-> TreeInsert(g.tree, member)]]

\* A faulty add_members: each element is checked right before it is
\* inserted, so the elements before the first empty one are appended.
add_members_prefix(g, ms) ==
  LET firstEmpty == IF HasEmpty(ms)
                    THEN CHOOSE k \in 1..Len(ms) :
                           /\ ms[k] = EMPTY_ELEMENT
                           /\ \A j \in 1..(k - 1) : ms[j] # EMPTY_ELEMENT
                    ELSE Len(ms) + 1
      prefix == SubSeq(ms, 1, firstEmpty - 1)
      many == TreeInsertMany(g.tree, prefix)
      after == IF many.ok THEN [tree |-> many.nodes] ELSE g
  IN IF HasEmpty(ms) THEN [res |-> "EmptyLeaf", group |-> after]
     ELSE IF many.ok THEN [res |-> "Ok", group |-> after]
     ELSE [res |-> "LeanIMTError", group |-> g]

\* Group::add_members
add_members(g, ms) ==
  IF HasEmpty(ms) THEN [res |-> "EmptyLeaf", group |-> g]
  ELSE LET many == TreeInsertMany(g.tree, ms)
       IN IF many.ok THEN [res |-> "Ok", group |-> [tree |-> many.nodes]]
          ELSE [res |-> "LeanIMTError", group |-> g]

\* A faulty update_member: the current leaf is not looked at.
update_member_unchecked(g, index, member) ==
  IF index >= size(g) THEN [res |-> "panic", group |-> g]
  ELSE LET upd == TreeUpdate(g.tree, index, member)
       IN IF upd.ok THEN [res |-> "Ok", group |-> [tree |-> upd.nodes]]
          ELSE [res |-> "LeanIMTError", group |-> g]

\* Group::update_member; members()[index] panics past the last leaf.
update_member(g, index, member) ==
  IF index >= size(g) THEN [res |-> "panic", group |-> g]
  ELSE IF At(members(g), index) = EMPTY_ELEMENT THEN [res |-> "RemovedMember", group |-> g]
  ELSE LET upd == TreeUpdate(g.tree, index, member)
       IN IF upd.ok THEN [res |-> "Ok", group |-> [tree |-> upd.nodes]]
          ELSE [res |-> "LeanIMTError", group |-> g]

\* A faulty remove_member: the leaf is taken out and the later ones move down.
remove_member_reindex(g, index) ==
  IF index >= size(g) THEN [res |-> "panic", group |-> g]
  ELSE IF At(members(g), index) = EMPTY_ELEMENT
  THEN [res |-> "AlreadyRemovedMember", group |-> g]
  ELSE [res |-> "Ok",
        group |-> [tree |-> TreeNew(SubSeq(members(g), 1, index)
                                      \o SubSeq(members(g), index + 2, size(g)))]]

\* Group::remove_member
remove_member(g, index) ==
  IF index >= size(g) THEN [res |-> "panic", group |-> g]
  ELSE IF At(members(g), index) = EMPTY_ELEMENT
  THEN [res |-> "AlreadyRemovedMember", group |-> g]
  ELSE LET upd == TreeUpdate(g.tree, index, EMPTY_ELEMENT)
       IN IF upd.ok THEN [res |-> "Ok", group |-> [tree |-> upd.nodes]]
          ELSE [res |-> "LeanIMTError", group |-> g]

NoProof == [root |-> EMPTY_ELEMENT, leaf |-> EMPTY_ELEMENT, index |-> 0, siblings |-> <<>>]

\* A faulty generate_proof: the proof of the neighbouring leaf.
generate_proof_neighbour(g, index) ==
  LET p == TreeGenerateProof(g.tree, IF index + 1 < size(g) THEN index + 1 ELSE index)
  IN IF p.ok
     THEN [res |-> "Ok", proof |-> [root |-> p.root, leaf |-> p.leaf,
                                     index |-> p.index, siblings |-> p.siblings]]
     ELSE [res |-> "LeanIMTError", proof |-> NoProof]

\* A faulty generate_proof: the tree's result is unwrapped.
generate_proof_unwrap(g, index) ==
  LET p == TreeGenerateProof(g.tree, index)
  IN IF p.ok
     THEN [res |-> "Ok", proof |-> [root |-> p.root, leaf |-> p.leaf,
                                     index |-> p.index, siblings |-> p.siblings]]
     ELSE [res |-> "panic", proof |-> NoProof]

\* Group::generate_proof
generate_proof(g, index) ==
  LET p == TreeGenerateProof(g.tree, index)
  IN IF p.ok
     THEN [res |-> "Ok", proof |-> [root |-> p.root, leaf |-> p.leaf,
                                     index |-> p.index, siblings |-> p.siblings]]
     ELSE [res |-> "LeanIMTError", proof |-> NoProof]

\* Group::verify_proof
verify_proof(proof) == TreeVerifyProof(proof)

\* A JSON document: an object with its keys, or text that is no object.
NotJson == [kind |-> "garbage", nodes |-> <<>>]

\* A faulty export: only the leaves are written.
export_leaves(g) == [res |-> "Ok", json |-> [kind |-> "object", nodes |-> <<members(g)>>]]

\* Group::export: the LeanIMT's nodes, level by level.
export(g) == [res |-> "Ok", json |-> [kind |-> "object", nodes |-> g.tree]]

\* Group::import: the document's nodes are taken as the tree, unchecked.
import(json) ==
  IF json.kind = "object" THEN [res |-> "Ok", group |-> [tree |-> json.nodes]]
  ELSE [res |-> "SerializationError", group |-> GroupDefault]

(***************************************************************************)
(* Bytes and integers.                                                     *)
(***************************************************************************)
\* The source's 32 (ELEMENT_SIZE, the message and string limit), scaled.
WIDTH == 2

RECURSIVE Pow256(_)
Pow256(n) == IF n = 0 THEN 1 ELSE 256 * Pow256(n - 1)

\* from_le_bytes_mod_order / from_be_bytes_mod_order into a field of order m
RECURSIVE FromLeMod(_, _)
FromLeMod(b, m) == IF b = <<>> THEN 0 ELSE (b[1] + 256 * FromLeMod(Tail(b), m)) % m

RECURSIVE FromBeMod(_, _)
FromBeMod(b, m) ==
  IF b = <<>> THEN 0
  ELSE (256 * FromBeMod(SubSeq(b, 1, Len(b) - 1), m) + b[Len(b)]) % m

\* from_bytes_le / from_bytes_be of a byte string
RECURSIVE FromBytesLe(_)
FromBytesLe(b) == IF b = <<>> THEN 0 ELSE b[1] + 256 * FromBytesLe(Tail(b))

RECURSIVE FromBytesBe(_)
FromBytesBe(b) ==
  IF b = <<>> THEN 0 ELSE b[1] * Pow256(Len(b) - 1) + FromBytesBe(Tail(b))

Reverse(b) == [k \in 1..Len(b) |-> b[Len(b) + 1 - k]]

\* the n little-endian bytes of v
ToBytesLeN(v, n) == [k \in 1..n |-> (v \div Pow256(k - 1)) % 256]

Zeros(n) == [k \in 1..n |-> 0]

\* b & 0xF8, b & 0x7F, b | 0x40 on one byte
AndF8(b) == b - (b % 8)
And7F(b) == b % 128
Or40(b) == IF (b \div 64) % 2 = 1 THEN b ELSE b + 64

(***************************************************************************)
(* BabyJubjub (src/src/baby_jubjub.rs) as Z_(COFACTOR * SUBGROUP_ORDER).   *)
(***************************************************************************)
COFACTOR == 8
\* the subgroup order l, scaled with Q (COFACTOR * l is within Hasse's bound of Q)
SUBGROUP_ORDER == 1543
CurveOrder == COFACTOR * SUBGROUP_ORDER

\* An affine point is its two coordinates.  The curve's points are the
\* images of 0..CurveOrder-1 under PointOf; (0, 1) is the neutral point.
CoordSpan == 127
PointOf(d) == [x |-> d % CoordSpan, y |-> (d \div CoordSpan) + 1]
LogOf(p) == (p.y - 1) * CoordSpan + p.x
is_on_curve(p) ==
  /\ p.x \in 0..(CoordSpan - 1)
  /\ p.y >= 1
  /\ LogOf(p) < CurveOrder

\* TECurveConfig::GENERATOR: the Base point, COFACTOR times the generator
GENERATOR == PointOf(COFACTOR)

PointAdd(p, r) == PointOf((LogOf(p) + LogOf(r)) % CurveOrder)
\* p.mul(k) for a scalar k of Fr
PointMul(p, k) == PointOf((LogOf(p) * k) % CurveOrder)

(***************************************************************************)
(* Hashes.  Blake-512 and Poseidon5 feed arithmetic, so they are fixed     *)
(* functions on integers; Poseidon5 is one-to-one in each argument.        *)
(***************************************************************************)
RECURSIVE Mix(_, _)
Mix(b, k) == IF b = <<>> THEN 0 ELSE (k * b[1] + 31 * Mix(Tail(b), k + 2)) % 65521

\* blake_512: 64 bytes (here 2 * WIDTH) determined by the input
blake_512(input) ==
  [k \in 1..(2 * WIDTH) |-> (Mix(input, 2 * k + 1) + 89 * k + 167 + 13 * Len(input)) % 256]

\* Poseidon::new_circom(5) on five Fq values
Poseidon5(a, b, c, d, e) == (131 * a + 137 * b + 139 * c + 149 * d + 151 * e + 157) % Q

(***************************************************************************)
(* Identity (src/src/identity.rs).                                         *)
(***************************************************************************)
\* A faulty pruning: the low three bits of the first byte are kept.
PruneHighOnly(hash) ==
  [hash EXCEPT ![WIDTH] = Or40(And7F(@))]

\* the pruning of the first half of a Blake-512 hash
Prune(hash) ==
  [hash EXCEPT ![1] = AndF8(@), ![WIDTH] = Or40(And7F(@))]

\* Identity::gen_secret_scalar
gen_secret_scalar(private_key) ==
  LET hash == Prune(blake_512(private_key))
      shifted == FromBytesLe(SubSeq(hash, 1, WIDTH)) \div 8
  IN shifted % SUBGROUP_ORDER

\* PublicKey::from_scalar
from_scalar(secret_scalar) == PointMul(GENERATOR, secret_scalar)

\* PublicKey::commitment
commitment(point) == Poseidon2(<<point.x>>, <<point.y>>)

\* Identity::new
IdentityNew(private_key) ==
  LET secret == gen_secret_scalar(private_key)
      public == from_scalar(secret)
  IN [private_key |-> private_key,
      secret_scalar |-> secret,
      public_key |-> public,
      commitment |-> commitment(public)]

\* utils::to_element: the little-endian bytes of an Fq value
to_element(value) == value

\* A faulty challenge: the message is left out of the hash.
ChallengeWithoutMessage(r, public_key, message) ==
  Poseidon5(r.x, r.y, public_key.x, public_key.y, 0) % SUBGROUP_ORDER

\* The challenge of a signature: Poseidon5 read into Fr.
Challenge(r, public_key, message) ==
  Poseidon5(r.x, r.y, public_key.x, public_key.y, FromBeMod(message, Q)) % SUBGROUP_ORDER

NoSignature == [r |-> PointOf(0), s |-> 0]

\* A faulty sign_message: the secret divided by the cofactor is used.
sign_message_divided(identity, message) ==
  IF Len(message) > WIDTH
  THEN [res |-> "MessageSizeExceeded", sig |-> NoSignature]
  ELSE LET hash == Prune(blake_512(identity.private_key))
           k_input == SubSeq(hash, WIDTH + 1, 2 * WIDTH) \o Reverse(message)
                        \o Zeros(WIDTH - Len(message))
           k_fr == FromLeMod(blake_512(k_input), SUBGROUP_ORDER)
           r == PointMul(GENERATOR, k_fr)
           c_fr == Challenge(r, identity.public_key, message)
       IN [res |-> "Ok",
           sig |-> [r |-> r, s |-> (k_fr + c_fr * identity.secret_scalar) % SUBGROUP_ORDER]]

\* Identity::sign_message
sign_message(identity, message) ==
  IF Len(message) > WIDTH
  THEN [res |-> "MessageSizeExceeded", sig |-> NoSignature]
  ELSE LET hash == Prune(blake_512(identity.private_key))
           k_input == SubSeq(hash, WIDTH + 1, 2 * WIDTH) \o Reverse(message)
                        \o Zeros(WIDTH - Len(message))
           k_fr == FromLeMod(blake_512(k_input), SUBGROUP_ORDER)
           r == PointMul(GENERATOR, k_fr)
           c_fr == Challenge(r, identity.public_key, message)
           secret_scalar == FromLeMod(SubSeq(hash, 1, WIDTH), SUBGROUP_ORDER)
       IN [res |-> "Ok",
           sig |-> [r |-> r, s |-> (k_fr + c_fr * secret_scalar) % SUBGROUP_ORDER]]

\* A faulty verify: the public key is looked at before the signature point.
SignatureVerifyKeyFirst(sig, public_key, message) ==
  IF Len(message) > WIDTH THEN [res |-> "MessageSizeExceeded", len |-> Len(message)]
  ELSE IF ~is_on_curve(public_key) THEN [res |-> "PublicKeyNotOnCurve", len |-> 0]
  ELSE IF ~is_on_curve(sig.r) THEN [res |-> "SignaturePointNotOnCurve", len |-> 0]
  ELSE LET c_fr == (Challenge(sig.r, public_key, message)
                      * FromBeMod(<<COFACTOR>>, SUBGROUP_ORDER)) % SUBGROUP_ORDER
           left == PointMul(GENERATOR, sig.s)
           right == PointAdd(sig.r, PointMul(public_key, c_fr))
       IN IF left # right THEN [res |-> "SignatureVerificationFailed", len |-> 0]
          ELSE [res |-> "Ok", len |-> 0]

\* Signature::verify; len is the length carried by MessageSizeExceeded
SignatureVerify(sig, public_key, message) ==
  IF Len(message) > WIDTH THEN [res |-> "MessageSizeExceeded", len |-> Len(message)]
  ELSE IF ~is_on_curve(sig.r) THEN [res |-> "SignaturePointNotOnCurve", len |-> 0]
  ELSE IF ~is_on_curve(public_key) THEN [res |-> "PublicKeyNotOnCurve", len |-> 0]
  ELSE LET c_fr == (Challenge(sig.r, public_key, message)
                      * FromBeMod(<<COFACTOR>>, SUBGROUP_ORDER)) % SUBGROUP_ORDER
           left == PointMul(GENERATOR, sig.s)
           right == PointAdd(sig.r, PointMul(public_key, c_fr))
       IN IF left # right THEN [res |-> "SignatureVerificationFailed", len |-> 0]
          ELSE [res |-> "Ok", len |-> 0]

(***************************************************************************)
(* The inputs the operations are called with.                              *)
(***************************************************************************)
PrivateKey1 == <<112, 114>>
PrivateKey2 == <<7>>
Identity1 == IdentityNew(PrivateKey1)
Identity2 == IdentityNew(PrivateKey2)

\* [1; 32] in the tests: every byte 1
MEMBER1 == <<257>>

\* the non-empty elements written to groups
Leaves == {MEMBER1, to_element(Identity1.commitment)}
Elements == Leaves \cup {EMPTY_ELEMENT}

SeqsUpTo(S, n) == UNION {[1..k -> S] : k \in 0..n}
Batches == SeqsUpTo(Elements, MaxBatch)
Indices == 0..MaxSize

(***************************************************************************)
(* The record of the last operation.                                       *)
(***************************************************************************)
NoJson == [kind |-> "none", nodes |-> <<>>]

GroupObs(op, res, before, index, ms) ==
  [op |-> op, res |-> res, before |-> before, index |-> index, members |-> ms,
   proof |-> NoProof, json |-> NoJson, imported |-> GroupDefault]

\* a file that does not exist, and a file written from the artifact of a
\* depth: all of it, or only a first part of it
NoFile == [exists |-> FALSE, of |-> 0, complete |-> FALSE]
File(artifact, whole) == [exists |-> TRUE, of |-> artifact, complete |-> whole]

\* the depths artifacts are asked for
ArtifactDepths == {1, 10, 20, 32}

\* temp_dir holds semaphore-{depth}.zkey; wasm, zkey and depth are the files
\* semaphore.wasm, semaphore.zkey and depth of ./zkey (depth: <<>> if absent)
NoFiles == [temp_dir |-> [d \in ArtifactDepths |-> NoFile], wasm |-> NoFile, zkey |-> NoFile, depth |-> <<>>]

Init ==
  /\ group = GroupDefault
  /\ last = GroupObs("init", "Ok", GroupDefault, 0, <<>>)
  /\ files = NoFiles

(***************************************************************************)
(* Group operations.                                                       *)
(***************************************************************************)
New(ms) ==
  LET r == GroupNew(ms)
  IN /\ UNCHANGED files /\ group' = IF r.res = "Ok" THEN r.group ELSE group
     /\ last' = GroupObs("new", r.res, GroupDefault, 0, ms)

AddMember(m) ==
  LET r == add_member(group, m)
  IN /\ size(group) < MaxSize
     /\ UNCHANGED files /\ group' = r.group
     /\ last' = GroupObs("add_member", r.res, group, 0, <<m>>)

AddMembers(ms) ==
  LET r == add_members(group, ms)
  IN /\ size(group) + Len(ms) <= MaxSize
     /\ UNCHANGED files /\ group' = r.group
     /\ last' = GroupObs("add_members", r.res, group, 0, ms)

UpdateMember(i, m) ==
  LET r == update_member(group, i, m)
  IN /\ UNCHANGED files /\ group' = r.group
     /\ last' = GroupObs("update_member", r.res, group, i, <<m>>)

RemoveMember(i) ==
  LET r == remove_member(group, i)
  IN /\ UNCHANGED files /\ group' = r.group
     /\ last' = GroupObs("remove_member", r.res, group, i, <<>>)

GenerateMerkleProof(i) ==
  LET r == generate_proof(group, i)
  IN /\ UNCHANGED files /\ group' = group
     /\ last' = [GroupObs("generate_proof", r.res, group, i, <<>>) EXCEPT !.proof = r.proof]

\* Group::verify_proof on the proof just generated
VerifyMerkleProof ==
  /\ last.op = "generate_proof"
  /\ last.res = "Ok"
  /\ UNCHANGED files /\ group' = group
  /\ last' = [last EXCEPT !.op = "verify_proof",
                          !.res = IF verify_proof(last.proof) THEN "true" ELSE "false"]

Export ==
  LET r == export(group)
  IN /\ UNCHANGED files /\ group' = group
     /\ last' = [GroupObs("export", r.res, group, 0, <<>>) EXCEPT !.json = r.json]

\* Group::import of the document just exported
Import ==
  LET r == import(last.json)
  IN /\ last.op = "export"
     /\ last.res = "Ok"
     /\ UNCHANGED files /\ group' = group
     /\ last' = [last EXCEPT !.op = "import", !.res = r.res, !.imported = r.group]

GroupNext ==
  \/ \E ms \in Batches : New(ms)
  \/ \E m \in Elements : AddMember(m)
  \/ \E ms \in Batches : AddMembers(ms)
  \/ \E i \in Indices, m \in Elements : UpdateMember(i, m)
  \/ \E i \in Indices : RemoveMember(i)
  \/ \E i \in Indices : GenerateMerkleProof(i)
  \/ VerifyMerkleProof
  \/ Export
  \/ Import

SpecGroup == Init /\ [][GroupNext]_vars

(***************************************************************************)
(* Properties of the Group operations.                                     *)
(***************************************************************************)
LiveIndex == /\ last.index < size(group)
             /\ At(members(group), last.index) # EMPTY_ELEMENT

\* C1: in every reachable Group, for every index below size() whose leaf is
\* not the empty element, generate_proof succeeds, its proof carries the
\* group's current root and the leaf members()[i], and verify_proof accepts it.
C1_MerkleProofVerifies ==
  /\ (last.op = "generate_proof" /\ LiveIndex) =>
        /\ last.res = "Ok"
        /\ <<last.proof.root>> = root(group)
        /\ last.proof.leaf = At(members(group), last.index)
        /\ verify_proof(last.proof)
  /\ (last.op = "verify_proof" /\ LiveIndex) => last.res = "true"

C1_Witness ==
  /\ last.op = "verify_proof"
  /\ last.res = "true"
  /\ size(group) = 3
  /\ last.index = 2
  /\ HasEmpty(members(group))
  /\ Len(last.proof.siblings) = 1

C9_ZeroWritesFail ==
  /\ (last.op \in {"new", "add_member", "add_members"} /\ HasEmpty(last.members))
        => last.res = "EmptyLeaf"
  /\ ( /\ last.op = "update_member"
       /\ last.members = <<EMPTY_ELEMENT>>
       /\ last.index < size(last.before)
       /\ At(members(last.before), last.index) # EMPTY_ELEMENT )
        => last.res = "EmptyLeaf"
  /\ (last.op = "new" /\ last.res = "Ok") => ~HasEmpty(members(group))
  /\ ( /\ last.op \notin {"new", "remove_member"}
       /\ \E k \in 1..size(group) :
             /\ members(group)[k] = EMPTY_ELEMENT
             /\ (k <= size(last.before) => members(last.before)[k] # EMPTY_ELEMENT) )
        => FALSE

\* C10: add_members with an empty element anywhere in the batch returns
\* EmptyLeaf and leaves the group's leaves, size, depth and root as they
\* were: no prefix of the batch is appended.
C10_AddMembersAtomic ==
  (last.op = "add_members" /\ HasEmpty(last.members)) =>
    /\ last.res = "EmptyLeaf"
    /\ group = last.before
    /\ members(group) = members(last.before)
    /\ size(group) = size(last.before)
    /\ depth(group) = depth(last.before)
    /\ root(group) = root(last.before)

C10_Witness ==
  /\ last.op = "add_members"
  /\ last.res = "EmptyLeaf"
  /\ Len(last.members) >= 2
  /\ last.members[1] # EMPTY_ELEMENT
  /\ size(group) >= 1

(***************************************************************************)
(* Signing and verifying (src/src/identity.rs).                            *)
(***************************************************************************)
PrivateKey3 == <<>>
PrivateKeys == {PrivateKey1, PrivateKey2, PrivateKey3}

\* messages of every length up to WIDTH, and one that is too long
Messages == {<<>>, <<1>>, <<0, 1>>, <<1, 0>>, <<104, 105>>, <<1, 2, 3>>}

\* the public keys a signature is verified against; the last is no curve point
OffCurve == [x |-> 1, y |-> 0]
PublicKeys == {IdentityNew(k).public_key : k \in PrivateKeys} \cup {OffCurve}

SignMessage(key, message) ==
  LET identity == IdentityNew(key)
      r == sign_message(identity, message)
  IN /\ UNCHANGED files /\ group' = group
     /\ last' = [op |-> "sign_message", res |-> r.res, identity |-> identity,
                 message |-> message, sig |-> r.sig,
                 public_key |-> identity.public_key, verified |-> message, len |-> 0]

\* Signature::verify of the signature just made, against any key and message
VerifySignature(public_key, message) ==
  /\ last.op \in {"sign_message", "verify"}
  /\ last.res # "MessageSizeExceeded" \/ last.op = "verify"
  /\ UNCHANGED files /\ group' = group
  /\ LET r == SignatureVerify(last.sig, public_key, message)
     IN last' = [last EXCEPT !.op = "verify",
                             !.res = r.res,
                             !.len = r.len,
                             !.public_key = public_key,
                             !.verified = message]

SigNext ==
  \/ \E key \in PrivateKeys, message \in Messages : SignMessage(key, message)
  \/ \E public_key \in PublicKeys, message \in Messages :
        VerifySignature(public_key, message)

SpecSig == Init /\ [][SigNext]_vars

\* C2: for every private key and every message of at most 32 bytes (WIDTH
\* here), sign_message returns a signature that Signature::verify accepts
\* for the identity's public key and that message.
C2_SignatureVerifies ==
  /\ (last.op = "sign_message" /\ Len(last.message) <= WIDTH) => last.res = "Ok"
  /\ ( /\ last.op = "verify"
       /\ last.public_key = last.identity.public_key
       /\ last.verified = last.message )
        => last.res = "Ok"

C2_Witness ==
  /\ last.op = "verify"
  /\ last.res = "Ok"
  /\ last.identity.private_key = PrivateKey1
  /\ last.public_key = last.identity.public_key
  /\ last.message = <<104, 105>>
  /\ last.verified = last.message

(***************************************************************************)
(* Unsigned integers, decimal strings and JSON values (src/src/proof.rs,   *)
(* src/src/utils.rs).  A string is the sequence of its bytes.              *)
(***************************************************************************)
\* BigUint::to_string: decimal digits, no leading zero, "0" for zero
RECURSIVE to_string(_)
to_string(n) == IF n < 10 THEN <<48 + n>> ELSE Append(to_string(n \div 10), 48 + (n % 10))

IsDigits(str) == str # <<>> /\ \A k \in 1..Len(str) : str[k] \in 48..57

RECURSIVE DigitsValue(_)
DigitsValue(str) ==
  IF str = <<>> THEN 0 ELSE 10 * DigitsValue(SubSeq(str, 1, Len(str) - 1)) + (str[Len(str)] - 48)

\* BigUint::from_str
FromStr(str) ==
  IF IsDigits(str) THEN [ok |-> TRUE, value |-> DigitsValue(str)]
  ELSE [ok |-> FALSE, value |-> 0]

\* JSON values
JNumber(n) == [kind |-> "number", value |-> n]
JString(str) == [kind |-> "string", value |-> str]
JArray(items) == [kind |-> "array", value |-> items]

\* as u16 of a u64
AsU16(n) == n % 65536

(***************************************************************************)
(* Groth16 proofs and their packing (src/src/proof.rs).                    *)
(***************************************************************************)
\* A faulty pack_groth16_proof: the halves of B.x and B.y are not swapped.
pack_groth16_proof_unswapped(p) ==
  <<p.a.x, p.a.y, p.b.x[1], p.b.x[2], p.b.y[1], p.b.y[2], p.c.x, p.c.y>>

\* Proof::pack_groth16_proof; x[1], x[2] here are the source's x[0], x[1]
pack_groth16_proof(p) ==
  <<p.a.x, p.a.y, p.b.x[2], p.b.x[1], p.b.y[2], p.b.y[1], p.c.x, p.c.y>>

\* Proof::unpack_groth16_proof
unpack_groth16_proof(packed) ==
  [a |-> [x |-> packed[1], y |-> packed[2], z |-> 1],
   b |-> [x |-> <<packed[4], packed[3]>>, y |-> <<packed[6], packed[5]>>, z |-> <<1, 0>>],
   c |-> [x |-> packed[7], y |-> packed[8], z |-> 1],
   protocol |-> "groth16",
   curve |-> "bn254"]

(***************************************************************************)
(* SemaphoreProof and its JSON form.                                       *)
(***************************************************************************)
SemaphoreProof(merkle_tree_depth, merkle_tree_root, message, nullifier, scope, points) ==
  [merkle_tree_depth |-> merkle_tree_depth, merkle_tree_root |-> merkle_tree_root,
   message |-> message, nullifier |-> nullifier, scope |-> scope, points |-> points]

NoSemaphoreProof == SemaphoreProof(0, 0, 0, 0, 0, <<>>)

\* A faulty export: the scope key is written from the nullifier.
ProofExportNullifierAsScope(p) ==
  [res |-> "Ok",
   json |-> [kind |-> "object",
             merkle_tree_depth |-> JNumber(p.merkle_tree_depth),
             merkle_tree_root |-> JString(to_string(p.merkle_tree_root)),
             message |-> JString(to_string(p.message)),
             nullifier |-> JString(to_string(p.nullifier)),
             scope |-> JString(to_string(p.nullifier)),
             points |-> JArray([k \in 1..Len(p.points) |-> JString(to_string(p.points[k]))])]]

\* SemaphoreProof::export
ProofExport(p) ==
  [res |-> "Ok",
   json |-> [kind |-> "object",
             merkle_tree_depth |-> JNumber(p.merkle_tree_depth),
             merkle_tree_root |-> JString(to_string(p.merkle_tree_root)),
             message |-> JString(to_string(p.message)),
             nullifier |-> JString(to_string(p.nullifier)),
             scope |-> JString(to_string(p.scope)),
             points |-> JArray([k \in 1..Len(p.points) |-> JString(to_string(p.points[k]))])]]

IsDecimal(v) == v.kind = "string" /\ FromStr(v.value).ok

\* SemaphoreProof::import: a document that is no JSON object is a
\* SerializationError; every unwrap on a key, a type or a number panics.
ProofImport(json) ==
  IF json.kind # "object" THEN [res |-> "SerializationError", proof |-> NoSemaphoreProof]
  ELSE IF \/ json.merkle_tree_depth.kind # "number"
          \/ \E key \in {"merkle_tree_root", "message", "nullifier", "scope"} :
                ~IsDecimal(json[key])
          \/ json.points.kind # "array"
          \/ \E k \in 1..Len(json.points.value) : ~IsDecimal(json.points.value[k])
          \/ Len(json.points.value) # 8
  THEN [res |-> "panic", proof |-> NoSemaphoreProof]
  ELSE [res |-> "Ok",
        proof |-> SemaphoreProof(
          AsU16(json.merkle_tree_depth.value),
          FromStr(json.merkle_tree_root.value).value,
          FromStr(json.message.value).value,
          FromStr(json.nullifier.value).value,
          FromStr(json.scope.value).value,
          [k \in 1..8 |-> FromStr(json.points.value[k].value).value])]

(***************************************************************************)
(* Packing and JSON conversion applied to sample values.                   *)
(***************************************************************************)
G1(x, y, z) == [x |-> x, y |-> y, z |-> z]
G2(x, y, z) == [x |-> x, y |-> y, z |-> z]

Groth16Proofs ==
  {[a |-> G1(ax, 2, az), b |-> G2(bx, by, bz), c |-> G1(907, 10, 1),
    protocol |-> "groth16", curve |-> "bn254"] :
     ax \in {0, 1}, az \in {1, 2}, bx \in {<<3, 4>>, <<4, 3>>},
     by \in {<<5, 6>>, <<5, 5>>}, bz \in {<<1, 0>>, <<0, 1>>}}

WellFormed(p) ==
  /\ p.a.z = 1
  /\ p.c.z = 1
  /\ p.b.z = <<1, 0>>
  /\ p.protocol = "groth16"
  /\ p.curve = "bn254"

SamplePoints == {pack_groth16_proof(p) : p \in {q \in Groth16Proofs : q.a.x = 1 /\ WellFormed(q)}}

SemaphoreProofs ==
  {SemaphoreProof(d, r, m, n, sc, pts) :
     d \in {0, 1, 32, 65535}, r \in {0, 907}, m \in {10, 65535},
     n \in {0, 12288}, sc \in {7, 100}, pts \in SamplePoints}

ExportProof(p) ==
  LET r == ProofExport(p)
  IN /\ UNCHANGED files /\ group' = group
     /\ last' = [op |-> "proof_export", res |-> r.res, proof |-> p, json |-> r.json,
                 imported |-> NoSemaphoreProof]

\* SemaphoreProof::import of the document just exported
ImportProof ==
  LET r == ProofImport(last.json)
  IN /\ last.op = "proof_export"
     /\ last.res = "Ok"
     /\ UNCHANGED files /\ group' = group
     /\ last' = [last EXCEPT !.op = "proof_import", !.res = r.res, !.imported = r.proof]

PackProof(p) ==
  /\ UNCHANGED files /\ group' = group
  /\ last' = [op |-> "pack", res |-> "Ok", g16 |-> p, packed |-> pack_groth16_proof(p),
              unpacked |-> p]

\* Proof::unpack_groth16_proof of the points just packed
UnpackProof ==
  /\ last.op = "pack"
  /\ UNCHANGED files /\ group' = group
  /\ last' = [last EXCEPT !.op = "unpack", !.unpacked = unpack_groth16_proof(last.packed)]

CodecNext ==
  \/ \E p \in SemaphoreProofs : ExportProof(p)
  \/ ImportProof
  \/ \E p \in Groth16Proofs : PackProof(p)
  \/ UnpackProof

SpecCodec == Init /\ [][CodecNext]_vars

\* C6: for every SemaphoreProof (any u16 depth, any unsigned integers in
\* the root, message, nullifier, scope and the 8 points), importing its
\* export returns Ok with a value equal to it in every field.
C6_ProofRoundTrip ==
  last.op = "proof_import" =>
    /\ last.res = "Ok"
    /\ last.imported.merkle_tree_depth = last.proof.merkle_tree_depth
    /\ last.imported.merkle_tree_root = last.proof.merkle_tree_root
    /\ last.imported.message = last.proof.message
    /\ last.imported.nullifier = last.proof.nullifier
    /\ last.imported.scope = last.proof.scope
    /\ last.imported.points = last.proof.points
    /\ last.imported = last.proof

C6_Witness ==
  /\ last.op = "proof_import"
  /\ last.res = "Ok"
  /\ last.proof.merkle_tree_depth = 65535
  /\ last.proof.nullifier = 12288
  /\ last.proof.scope = 100
  /\ last.proof.merkle_tree_root = 0
  /\ last.imported = last.proof

\* C8: for every well-formed Groth16 proof (A.z = C.z = 1, B.z = [1, 0],
\* protocol groth16, curve bn254), unpacking its packed points gives the
\* proof back, and the packed order is
\* [A.x, A.y, B.x[1], B.x[0], B.y[1], B.y[0], C.x, C.y].
C8_PackUnpack ==
  (last.op = "unpack" /\ WellFormed(last.g16)) =>
    /\ last.unpacked = last.g16
    /\ last.packed = <<last.g16.a.x, last.g16.a.y,
                       last.g16.b.x[2], last.g16.b.x[1],
                       last.g16.b.y[2], last.g16.b.y[1],
                       last.g16.c.x, last.g16.c.y>>

C8_Witness ==
  /\ last.op = "unpack"
  /\ WellFormed(last.g16)
  /\ last.g16.b.x = <<3, 4>>
  /\ last.g16.b.y = <<5, 6>>
  /\ last.packed[3] = 4
  /\ last.unpacked = last.g16

(***************************************************************************)
(* Scope and message integers (src/src/utils.rs).                          *)
(***************************************************************************)
MIN_TREE_DEPTH == 1
MAX_TREE_DEPTH == 32

\* BigUint::to_bytes_be: the shortest big-endian bytes, <<0>> for zero
RECURSIVE to_bytes_be(_)
to_bytes_be(n) == IF n < 256 THEN <<n>> ELSE Append(to_bytes_be(n \div 256), n % 256)

\* keccak256 is one-to-one on byte strings: a digest is the term of its input
keccak256(bytes) == <<"keccak256", bytes>>

\* A faulty hash: the shift is applied to the integer before it is hashed.
hash_shift_first(message) == <<"shr8", keccak256(to_bytes_be(message \div 256))>>

\* utils::hash: the decimal string of the digest shifted right by 8 bits
hash(message) == <<"shr8", keccak256(to_bytes_be(message))>>

\* the 32-byte (here WIDTH) buffer to_big_uint fills from the left
Padded(str) == str \o Zeros(WIDTH - Len(str))

\* A faulty to_big_uint: the bytes are not moved to the left of the buffer.
to_big_uint_unpadded(str) ==
  IF Len(str) > WIDTH
  THEN [res |-> "panic", value |-> 0, msg |-> <<"BigUint too large: exceeds 32 bytes">>]
  ELSE [res |-> "Ok", value |-> FromBytesBe(str), msg |-> <<>>]

\* utils::to_big_uint; the assert panics on more than 32 bytes
to_big_uint(str) ==
  IF Len(str) > WIDTH
  THEN [res |-> "panic", value |-> 0, msg |-> <<"BigUint too large: exceeds 32 bytes">>]
  ELSE [res |-> "Ok", value |-> FromBytesBe(Padded(str)), msg |-> <<>>]

\* BigUint::from_bytes_le of an element: the element stands for that integer
ElementToBigUint(element) == element

(***************************************************************************)
(* The Semaphore circuit of one depth and the Groth16 engine (external).   *)
(***************************************************************************)
\* Num2Bits(bits) accepts n
RECURSIVE FitsBits(_, _)
FitsBits(n, bits) ==
  IF n = 0 THEN TRUE ELSE IF bits = 0 THEN FALSE ELSE FitsBits(n \div 2, bits - 1)

NoPublicInputs == <<>>

\* The witness of Semaphore(MAX_DEPTH): the identity commitment of the
\* secret, the binary Merkle root over the first merkleProofLength siblings
\* and the nullifier Poseidon2(scope, secret).  A length above MAX_DEPTH is
\* either refused or selects no level (root 0), depending on the circuit
\* release: lenient tells which.
SemaphoreCircuit(max_depth, secret, merkleProofLength, merkleProofIndex, merkleProofSiblings, message, scope, lenient) ==
  LET public == PointMul(GENERATOR, secret)
      leaf == Poseidon2(<<public.x>>, <<public.y>>)
      nullifier == Poseidon2(scope, <<secret>>)
  IN IF ~FitsBits(merkleProofIndex, max_depth)
     THEN [ok |-> FALSE, pub |-> NoPublicInputs]
     ELSE IF merkleProofLength > max_depth
     THEN IF lenient
          THEN [ok |-> TRUE, pub |-> <<EMPTY_ELEMENT, nullifier, message, scope>>]
          ELSE [ok |-> FALSE, pub |-> NoPublicInputs]
     ELSE [ok |-> TRUE,
           pub |-> <<VerifyLoop(leaf, merkleProofIndex,
                                SubSeq(merkleProofSiblings, 1, merkleProofLength), 1),
                     nullifier, message, scope>>]

NoGroth16 == [a |-> G1(0, 0, 0), b |-> G2(<<0, 0>>, <<0, 0>>, <<0, 0>>), c |-> G1(0, 0, 0),
              protocol |-> "", curve |-> ""]
NotIssued == [ok |-> FALSE, depth |-> 0, proof |-> NoGroth16, pub |-> NoPublicInputs]

\* CircomProver::prove: a proof (rand picks its points) of the statement
\* made of the depth and the witness's public values, or an error.
Prove(max_depth, inputs, rand, lenient) ==
  LET w == SemaphoreCircuit(max_depth, inputs.secret, inputs.merkleProofLength,
                            inputs.merkleProofIndex, inputs.merkleProofSiblings,
                            inputs.message, inputs.scope, lenient)
  IN IF w.ok
     THEN [ok |-> TRUE, depth |-> max_depth, proof |-> rand, pub |-> w.pub]
     ELSE NotIssued

\* CircomProver::verify with the key of max_depth: true exactly for the
\* proof and the public values of the statement that was proved.
Groth16Verify(max_depth, proof, pub, issued) ==
  /\ issued.ok
  /\ issued.depth = max_depth
  /\ issued.proof = proof
  /\ issued.pub = pub

(***************************************************************************)
(* Proof (src/src/proof.rs).                                               *)
(***************************************************************************)
\* GroupOrMerkleProof
FromGroup(g) == [kind |-> "Group", group |-> g, proof |-> NoProof]
FromMerkleProof(proof) == [kind |-> "MerkleProof", group |-> GroupDefault, proof |-> proof]

\* A faulty merkle_proof: a missing leaf falls back to the first leaf.
merkle_proof_or_first(source, leaf) ==
  IF source.kind = "Group"
  THEN LET idx == index_of(source.group, leaf)
       IN IF idx = <<>>
          THEN [res |-> "Ok", msg |-> <<>>, proof |-> generate_proof(source.group, 0).proof]
          ELSE [res |-> "Ok", msg |-> <<>>,
                proof |-> generate_proof(source.group, idx[1]).proof]
  ELSE [res |-> "Ok", msg |-> <<>>, proof |-> source.proof]

\* GroupOrMerkleProof::merkle_proof; expect panics when the leaf is absent
merkle_proof(source, leaf) ==
  IF source.kind = "Group"
  THEN LET idx == index_of(source.group, leaf)
       IN IF idx = <<>>
          THEN [res |-> "panic", msg |-> <<"The identity does not exist">>,
                proof |-> NoProof]
          ELSE [res |-> "Ok", msg |-> <<>>,
                proof |-> generate_proof(source.group, idx[1]).proof]
  ELSE [res |-> "Ok", msg |-> <<>>, proof |-> source.proof]

\* the siblings cut or filled with empty elements to merkle_tree_depth entries
FitSiblings(siblings, merkle_tree_depth) ==
  [k \in 1..merkle_tree_depth |->
     IF k <= Len(siblings) THEN siblings[k] ELSE EMPTY_ELEMENT]

\* A faulty message: the two numbers are left out.
TreeDepthMessageBare(min, max) == <<"The tree depth must be a number between and">>

\* format!("The tree depth must be a number between {} and {}", min, max)
TreeDepthMessage(min, max) == <<"The tree depth must be a number between ", to_string(min), " and ", to_string(max)>>

\* msg is the text of the error or panic, calls the external calls made (key
\* download, prover, verifier) and merkle_proof the Merkle proof worked with
\* the inputs map handed to the prover, before any is made
NoInputs == [secret |-> 0, merkleProofLength |-> 0, merkleProofIndex |-> 0, merkleProofSiblings |-> <<>>, scope |-> <<>>, message |-> <<>>]

NoRun == [res |-> "none", proof |-> NoSemaphoreProof, issued |-> NotIssued, msg |-> <<>>, calls |-> <<>>, merkle_proof |-> NoProof, inputs |-> NoInputs]

\* A faulty generate_proof: the scope input is made from the message.
ProofGenerateScopeFromMessage(identity, source, message, scope, merkle_tree_depth, rand, lenient) ==
  IF merkle_tree_depth < MIN_TREE_DEPTH \/ merkle_tree_depth > MAX_TREE_DEPTH
  THEN [NoRun EXCEPT !.res = "TreeDepthError",
                     !.msg = TreeDepthMessage(MIN_TREE_DEPTH, MAX_TREE_DEPTH)]
  ELSE LET mp == merkle_proof(source, to_element(identity.commitment))
           scope_uint == to_big_uint(scope)
           message_uint == to_big_uint(message)
       IN IF mp.res = "panic"
          THEN [NoRun EXCEPT !.res = "panic", !.msg = mp.msg]
          ELSE IF scope_uint.res = "panic"
          THEN [NoRun EXCEPT !.res = "panic", !.msg = scope_uint.msg,
                             !.merkle_proof = mp.proof]
          ELSE IF message_uint.res = "panic"
          THEN [NoRun EXCEPT !.res = "panic", !.msg = message_uint.msg,
                             !.merkle_proof = mp.proof]
          ELSE LET inputs ==
                     [secret |-> identity.secret_scalar,
                      merkleProofLength |-> Len(mp.proof.siblings),
                      merkleProofIndex |-> mp.proof.index,
                      merkleProofSiblings |->
                        FitSiblings(mp.proof.siblings, merkle_tree_depth),
                      scope |-> hash(message_uint.value),
                      message |-> hash(message_uint.value)]
                   circom_proof == Prove(merkle_tree_depth, inputs, rand, lenient)
               IN IF ~circom_proof.ok
                  THEN [NoRun EXCEPT !.res = "ProverError", !.msg = <<"prover">>,
                                     !.calls = <<"download_zkey", "prove">>,
                                     !.merkle_proof = mp.proof,
                                     !.inputs = inputs]
                  ELSE [res |-> "Ok",
                        proof |-> SemaphoreProof(
                          merkle_tree_depth,
                          ElementToBigUint(mp.proof.root),
                          message_uint.value,
                          circom_proof.pub[2],
                          scope_uint.value,
                          pack_groth16_proof(circom_proof.proof)),
                        issued |-> circom_proof,
                        msg |-> <<>>,
                        calls |-> <<"download_zkey", "prove">>,
                        merkle_proof |-> mp.proof,
                        inputs |-> inputs]

\* Proof::generate_proof.  res is "Ok", "TreeDepthError" (the bail!),
\* "ProverError" (the prover's error, passed on by ?) or "panic"; issued is
\* what the Groth16 engine proved.
ProofGenerate(identity, source, message, scope, merkle_tree_depth, rand, lenient) ==
  IF merkle_tree_depth < MIN_TREE_DEPTH \/ merkle_tree_depth > MAX_TREE_DEPTH
  THEN [NoRun EXCEPT !.res = "TreeDepthError",
                     !.msg = TreeDepthMessage(MIN_TREE_DEPTH, MAX_TREE_DEPTH)]
  ELSE LET mp == merkle_proof(source, to_element(identity.commitment))
           scope_uint == to_big_uint(scope)
           message_uint == to_big_uint(message)
       IN IF mp.res = "panic"
          THEN [NoRun EXCEPT !.res = "panic", !.msg = mp.msg]
          ELSE IF scope_uint.res = "panic"
          THEN [NoRun EXCEPT !.res = "panic", !.msg = scope_uint.msg,
                             !.merkle_proof = mp.proof]
          ELSE IF message_uint.res = "panic"
          THEN [NoRun EXCEPT !.res = "panic", !.msg = message_uint.msg,
                             !.merkle_proof = mp.proof]
          ELSE LET inputs ==
                     [secret |-> identity.secret_scalar,
                      merkleProofLength |-> Len(mp.proof.siblings),
                      merkleProofIndex |-> mp.proof.index,
                      merkleProofSiblings |->
                        FitSiblings(mp.proof.siblings, merkle_tree_depth),
                      scope |-> hash(scope_uint.value),
                      message |-> hash(message_uint.value)]
                   circom_proof == Prove(merkle_tree_depth, inputs, rand, lenient)
               IN IF ~circom_proof.ok
                  THEN [NoRun EXCEPT !.res = "ProverError", !.msg = <<"prover">>,
                                     !.calls = <<"download_zkey", "prove">>,
                                     !.merkle_proof = mp.proof,
                                     !.inputs = inputs]
                  ELSE [res |-> "Ok",
                        proof |-> SemaphoreProof(
                          merkle_tree_depth,
                          ElementToBigUint(mp.proof.root),
                          message_uint.value,
                          circom_proof.pub[2],
                          scope_uint.value,
                          pack_groth16_proof(circom_proof.proof)),
                        issued |-> circom_proof,
                        msg |-> <<>>,
                        calls |-> <<"download_zkey", "prove">>,
                        merkle_proof |-> mp.proof,
                        inputs |-> inputs]

\* A faulty verify_proof: the message and scope public values change places.
ProofVerifySwapped(proof, issued) ==
  IF proof.merkle_tree_depth < MIN_TREE_DEPTH \/ proof.merkle_tree_depth > MAX_TREE_DEPTH
  THEN [res |-> "panic", msg |-> <<"The tree depth must be a number between and">>,
        calls |-> <<>>]
  ELSE LET scope == hash(proof.scope)
           message == hash(proof.message)
           pub_inputs == <<proof.merkle_tree_root, proof.nullifier, scope, message>>
           p == unpack_groth16_proof(proof.points)
       IN IF Groth16Verify(proof.merkle_tree_depth, p, pub_inputs, issued)
          THEN [res |-> "true", msg |-> <<>>, calls |-> <<"download_zkey", "verify">>]
          ELSE [res |-> "false", msg |-> <<>>, calls |-> <<"download_zkey", "verify">>]

\* A faulty verify_proof: the root is not taken from the proof.
ProofVerifyAnyRoot(proof, issued) ==
  IF proof.merkle_tree_depth < MIN_TREE_DEPTH \/ proof.merkle_tree_depth > MAX_TREE_DEPTH
  THEN [res |-> "panic", msg |-> <<"The tree depth must be a number between and">>,
        calls |-> <<>>]
  ELSE LET scope == hash(proof.scope)
           message == hash(proof.message)
           pub_inputs == <<IF issued.ok THEN issued.pub[1] ELSE proof.merkle_tree_root,
                           proof.nullifier, message, scope>>
           p == unpack_groth16_proof(proof.points)
       IN IF Groth16Verify(proof.merkle_tree_depth, p, pub_inputs, issued)
          THEN [res |-> "true", msg |-> <<>>, calls |-> <<"download_zkey", "verify">>]
          ELSE [res |-> "false", msg |-> <<>>, calls |-> <<"download_zkey", "verify">>]

\* Proof::verify_proof: res is "true", "false", or "panic" on a depth out
\* of range; msg is the panic's text and calls the external calls made
ProofVerify(proof, issued) ==
  IF proof.merkle_tree_depth < MIN_TREE_DEPTH \/ proof.merkle_tree_depth > MAX_TREE_DEPTH
  THEN [res |-> "panic", msg |-> <<"The tree depth must be a number between and">>,
        calls |-> <<>>]
  ELSE LET scope == hash(proof.scope)
           message == hash(proof.message)
           pub_inputs == <<proof.merkle_tree_root, proof.nullifier, message, scope>>
           p == unpack_groth16_proof(proof.points)
       IN IF Groth16Verify(proof.merkle_tree_depth, p, pub_inputs, issued)
          THEN [res |-> "true", msg |-> <<>>, calls |-> <<"download_zkey", "verify">>]
          ELSE [res |-> "false", msg |-> <<>>, calls |-> <<"download_zkey", "verify">>]

(***************************************************************************)
(* Generating and verifying proofs.                                        *)
(***************************************************************************)
\* [2; 32] in the tests: every byte 2
MEMBER2 == <<514>>
Commitment1 == to_element(Identity1.commitment)
Commitment2 == to_element(Identity2.commitment)

\* groups with the first identity alone, last (one sibling), first (two
\* siblings), next to a removed member, and with both identities
GroupOfThree == GroupNew(<<MEMBER1, MEMBER2, Commitment1>>).group
GroupOfBoth == GroupNew(<<Commitment2, Commitment1>>).group
GroupOfFour == GroupNew(<<MEMBER1, Commitment1, MEMBER2, Commitment2>>).group
ProofGroups ==
  {GroupNew(<<Commitment1>>).group,
   GroupOfThree,
   GroupNew(<<Commitment1, MEMBER1, MEMBER2>>).group,
   remove_member(GroupNew(<<MEMBER1, Commitment1, MEMBER2>>).group, 0).group,
   GroupOfBoth,
   GroupOfFour}

ProofSources ==
  {FromGroup(g) : g \in ProofGroups}
    \cup {FromMerkleProof(generate_proof(GroupOfThree, 2).proof)}

ProofIdentities == {Identity1, Identity2}
ProofMessages == {<<104>>, <<104, 105>>}
ProofScopes == {<<>>, <<97>>, <<1, 2, 3>>}
ProofDepths == {0, 1, 2, 32, 33}
\* the proofs the prover's randomness may give
Rands == {p \in Groth16Proofs : WellFormed(p) /\ p.a.x = 1 /\ p.b.y = <<5, 6>>}

NoFirst == [res |-> "none"]

RunObs(identity, source, message, scope, merkle_tree_depth, r, first) ==
  [op |-> "generate_proof", res |-> r.res, identity |-> identity, source |-> source,
   message |-> message, scope |-> scope, depth |-> merkle_tree_depth,
   proof |-> r.proof, issued |-> r.issued, first |-> first,
   msg |-> r.msg, calls |-> r.calls, merkle_proof |-> r.merkle_proof,
   inputs |-> r.inputs]

GenerateProof(identity, source, message, scope, merkle_tree_depth, rand, lenient) ==
  LET r == ProofGenerate(identity, source, message, scope, merkle_tree_depth,
                         rand, lenient)
  IN /\ UNCHANGED files /\ group' = group
     /\ last' = RunObs(identity, source, message, scope, merkle_tree_depth, r, NoFirst)

\* a second run of Proof::generate_proof, the first one kept for comparison
GenerateProofAgain(identity, source, message, scope, merkle_tree_depth, rand, lenient) ==
  LET r == ProofGenerate(identity, source, message, scope, merkle_tree_depth,
                         rand, lenient)
  IN /\ last.op = "generate_proof"
     /\ last.first = NoFirst
     /\ UNCHANGED files /\ group' = group
     /\ last' = RunObs(identity, source, message, scope, merkle_tree_depth, r,
                       [res |-> last.res, identity |-> last.identity,
                        source |-> last.source, message |-> last.message,
                        scope |-> last.scope, depth |-> last.depth,
                        nullifier |-> last.proof.nullifier,
                        scope_uint |-> last.proof.scope])

\* Proof::verify_proof of the proof just generated
VerifyProof ==
  /\ last.op = "generate_proof"
  /\ last.res = "Ok"
  /\ UNCHANGED files /\ group' = group
  /\ LET r == ProofVerify(last.proof, last.issued)
     IN last' = [last EXCEPT !.op = "verify_proof", !.res = r.res,
                             !.msg = r.msg, !.calls = r.calls]

ProofNext ==
  \/ \E identity \in ProofIdentities, source \in ProofSources,
         message \in ProofMessages, scope \in ProofScopes,
         merkle_tree_depth \in ProofDepths, rand \in Rands, lenient \in BOOLEAN :
        GenerateProof(identity, source, message, scope, merkle_tree_depth, rand, lenient)
  \/ VerifyProof

SpecProof == Init /\ [][ProofNext]_vars

\* the case of a proof made from a Group that holds the identity
ProofCase ==
  /\ last.source.kind = "Group"
  /\ index_of(last.source.group, to_element(last.identity.commitment)) # <<>>
  /\ Len(last.message) <= WIDTH
  /\ Len(last.scope) <= WIDTH
  /\ last.depth >= MIN_TREE_DEPTH
  /\ last.depth <= MAX_TREE_DEPTH

SiblingsOfCase ==
  merkle_proof(last.source, to_element(last.identity.commitment)).proof.siblings

NullifierSources == {FromGroup(GroupOfBoth), FromGroup(GroupOfFour)}
NullifierScopes == {<<>>, <<97>>, <<97, 0>>, <<97, 1>>}
NullifierDepths == {2, 32}
Rand1 == CHOOSE p \in Rands : p.b.x = <<3, 4>>

NullifierNext ==
  \/ \E identity \in ProofIdentities, source \in NullifierSources,
         message \in ProofMessages, scope \in NullifierScopes,
         merkle_tree_depth \in NullifierDepths :
        GenerateProof(identity, source, message, scope, merkle_tree_depth, Rand1, TRUE)
  \/ \E identity \in ProofIdentities, source \in NullifierSources,
         message \in ProofMessages, scope \in NullifierScopes,
         merkle_tree_depth \in NullifierDepths :
        GenerateProofAgain(identity, source, message, scope, merkle_tree_depth,
                           Rand1, TRUE)

SpecNullifier == Init /\ [][NullifierNext]_vars

TwoRuns ==
  /\ last.op = "generate_proof"
  /\ last.res = "Ok"
  /\ last.first.res = "Ok"

\* C4: two runs of generate_proof with the same identity and the same scope
\* string give the same nullifier, whatever the messages, groups and depths;
\* the nullifier is fixed by the secret scalar and hash(scope).
C4_NullifierDeterminism ==
  TwoRuns =>
    /\ (last.identity = last.first.identity /\ last.scope = last.first.scope)
          => last.proof.nullifier = last.first.nullifier
    /\ ( /\ last.identity.secret_scalar = last.first.identity.secret_scalar
         /\ hash(last.proof.scope) = hash(last.first.scope_uint) )
          => last.proof.nullifier = last.first.nullifier

C4_Witness ==
  /\ TwoRuns
  /\ last.identity = last.first.identity
  /\ last.scope = last.first.scope
  /\ last.message # last.first.message
  /\ last.source # last.first.source
  /\ last.depth # last.first.depth
  /\ last.proof.nullifier = last.first.nullifier

\* C5 as stated: for one identity and two different scope strings of at
\* most 32 bytes, the two proofs carry different scope integers and
\* different nullifiers.
C5_DifferentScopes ==
  (TwoRuns /\ last.identity = last.first.identity /\ last.scope # last.first.scope)
    => /\ last.proof.scope # last.first.scope_uint
       /\ last.proof.nullifier # last.first.nullifier

\* C5, amended: the same for two scope strings that still differ once each
\* is filled with zero bytes to 32 bytes, that is, that differ by more than
\* trailing zero bytes.
C5_DifferentPaddedScopes ==
  ( /\ TwoRuns
    /\ last.identity = last.first.identity
    /\ Padded(last.scope) # Padded(last.first.scope) )
    => /\ last.proof.scope # last.first.scope_uint
       /\ last.proof.nullifier # last.first.nullifier

C5_Witness ==
  /\ TwoRuns
  /\ last.identity = last.first.identity
  /\ last.scope = <<97, 1>>
  /\ last.first.scope = <<97>>
  /\ last.proof.scope # last.first.scope_uint
  /\ last.proof.nullifier # last.first.nullifier

(***************************************************************************)
(* More properties of the Group operations.                                *)
(***************************************************************************)
\* the slot the last call named was a removed one before the call
RemovedSlot ==
  /\ last.index < size(last.before)
  /\ At(members(last.before), last.index) = EMPTY_ELEMENT

\* C11: on an index below size() whose leaf is the empty element,
\* update_member returns RemovedMember for every element and remove_member
\* returns AlreadyRemovedMember, the group staying as it was; no operation
\* on a group makes a removed slot live again.
C11_RemovedStaysRemoved ==
  /\ (last.op = "update_member" /\ RemovedSlot)
        => (last.res = "RemovedMember" /\ group = last.before)
  /\ (last.op = "remove_member" /\ RemovedSlot)
        => (last.res = "AlreadyRemovedMember" /\ group = last.before)
  /\ last.op \in {"add_member", "add_members", "update_member", "remove_member",
                  "generate_proof", "verify_proof", "export", "import"}
        => \A k \in 1..size(last.before) :
             members(last.before)[k] = EMPTY_ELEMENT
               => (k <= size(group) /\ members(group)[k] = EMPTY_ELEMENT)

C11_Witness ==
  /\ last.op = "update_member"
  /\ RemovedSlot
  /\ last.members[1] # EMPTY_ELEMENT
  /\ last.res = "RemovedMember"
  /\ size(group) >= 2
  /\ group = last.before

SlotWrite == last.op \in {"update_member", "remove_member"} /\ last.res = "Ok"

\* the element a successful update_member or remove_member writes
Written == IF last.op = "update_member" THEN last.members[1] ELSE EMPTY_ELEMENT

OnlySlotChanged ==
  /\ size(group) = size(last.before)
  /\ At(members(group), last.index) = Written
  /\ \A k \in 0..(size(group) - 1) :
       k # last.index => At(members(group), k) = At(members(last.before), k)

SizeNeverDecreases ==
  last.op \in {"add_member", "add_members", "update_member", "remove_member",
               "generate_proof", "verify_proof", "export", "import"}
    => size(group) >= size(last.before)

\* C12 as stated: a successful update_member(i, e) or remove_member(i)
\* changes slot i only, size() stays, every other index keeps its element
\* and index_of of every other live member is what it was; no operation
\* decreases size().
C12_OnlySlotAndIndexOf ==
  /\ SlotWrite =>
       /\ OnlySlotChanged
       /\ \A k \in 0..(size(last.before) - 1) :
            (k # last.index /\ At(members(last.before), k) # EMPTY_ELEMENT)
              => index_of(group, At(members(last.before), k))
                   = index_of(last.before, At(members(last.before), k))
  /\ SizeNeverDecreases

\* C12, amended: the same, with index_of unchanged for every other live
\* member whose element is neither the element slot i held nor the one
\* written to it (index_of gives the first position of an element).
C12_OnlySlotChanges ==
  /\ SlotWrite =>
       /\ OnlySlotChanged
       /\ \A k \in 0..(size(last.before) - 1) :
            ( /\ k # last.index
              /\ At(members(last.before), k) # EMPTY_ELEMENT
              /\ At(members(last.before), k) # At(members(last.before), last.index)
              /\ At(members(last.before), k) # Written )
              => index_of(group, At(members(last.before), k))
                   = index_of(last.before, At(members(last.before), k))
  /\ SizeNeverDecreases

C12_Witness ==
  /\ last.op = "remove_member"
  /\ last.res = "Ok"
  /\ last.index = 0
  /\ size(group) = 3
  /\ At(members(group), 0) = EMPTY_ELEMENT
  /\ At(members(group), 1) # EMPTY_ELEMENT
  /\ At(members(group), 1) # At(members(last.before), 0)
  /\ index_of(group, At(members(group), 1)) = <<1>>

\* d is the least number with 2^d >= n
IsCeilLog2(d, n) == Pow2(d) >= n /\ (d = 0 \/ Pow2(d - 1) < n)

\* C13: in every reachable state depth() is ceil(log2(size())) for
\* size() >= 1 and 0 for size() = 0, root() is None exactly when size() is
\* 0, and update_member and remove_member leave depth() as it was.
C13_DepthAndRoot ==
  /\ IF size(group) = 0 THEN depth(group) = 0
     ELSE \E d \in 0..size(group) : IsCeilLog2(d, size(group)) /\ depth(group) = d
  /\ (root(group) = <<>>) <=> (size(group) = 0)
  /\ last.op \in {"update_member", "remove_member"}
       => depth(group) = depth(last.before)

C13_Witness ==
  /\ last.op = "remove_member"
  /\ last.res = "Ok"
  /\ size(group) = 3
  /\ depth(group) = 2
  /\ root(group) # <<>>

\* C14: generate_proof(i) with i >= size(), the empty group included,
\* returns Err(LeanIMTError) without a panic and leaves the group as it
\* was; it returns Ok for every i < size().
C14_ProofIndexError ==
  last.op = "generate_proof" =>
    /\ group = last.before
    /\ last.index >= size(group) => last.res = "LeanIMTError"
    /\ last.index < size(group) => last.res = "Ok"

C14_Witness ==
  /\ last.op = "generate_proof"
  /\ last.res = "LeanIMTError"
  /\ size(group) = 2
  /\ last.index = 2
  /\ group = last.before

C14_WitnessEmpty ==
  /\ last.op = "generate_proof"
  /\ last.res = "LeanIMTError"
  /\ size(group) = 0

\* C15: update_member and remove_member with an index i >= size() return
\* Err(LeanIMTError) and leave the group unchanged; they do not panic.
C15_IndexErrorIsReturned ==
  (last.op \in {"update_member", "remove_member"} /\ last.index >= size(last.before)) =>
    /\ last.res = "LeanIMTError"
    /\ group = last.before

(***************************************************************************)
(* The failures of generate_proof and verify_proof.                        *)
(***************************************************************************)
\* a group the first identity was removed from, next to the second one
GroupRemoved == remove_member(GroupOfBoth, 1).group
ErrorSources ==
  {FromGroup(GroupOfThree), FromGroup(GroupOfBoth), FromGroup(GroupDefault),
   FromGroup(GroupRemoved),
   FromMerkleProof(generate_proof(GroupOfThree, 2).proof),
   FromMerkleProof(generate_proof(GroupOfBoth, 0).proof)}
\* messages and scopes up to one byte more than the buffer holds
ErrorMessages == {<<104>>, <<104, 105>>, <<104, 105, 106>>}
ErrorScopes == {<<97>>, <<0, 97>>, <<1, 2, 3>>}
\* merkle_tree_depth is a public field: 40 is what the tests write into it
TamperedDepths == ProofDepths \cup {40}

\* Proof::verify_proof of the proof just generated, its depth overwritten
VerifyProofOfDepth(merkle_tree_depth) ==
  /\ last.op = "generate_proof"
  /\ last.res = "Ok"
  /\ UNCHANGED files /\ group' = group
  /\ LET proof == [last.proof EXCEPT !.merkle_tree_depth = merkle_tree_depth]
         r == ProofVerify(proof, last.issued)
     IN last' = [last EXCEPT !.op = "verify_proof", !.res = r.res, !.proof = proof,
                             !.msg = r.msg, !.calls = r.calls]

ErrorNext ==
  \/ \E identity \in ProofIdentities, source \in ErrorSources,
         message \in ErrorMessages, scope \in ErrorScopes,
         merkle_tree_depth \in ProofDepths, lenient \in BOOLEAN :
        GenerateProof(identity, source, message, scope, merkle_tree_depth, Rand1, lenient)
  \/ \E merkle_tree_depth \in TamperedDepths : VerifyProofOfDepth(merkle_tree_depth)

SpecProofErrors == Init /\ [][ErrorNext]_vars

DepthOutOfRange(merkle_tree_depth) == merkle_tree_depth < 1 \/ merkle_tree_depth > 32

IdentityInSource ==
  \/ last.source.kind = "MerkleProof"
  \/ index_of(last.source.group, to_element(last.identity.commitment)) # <<>>

\* C16: generate_proof with a depth outside [1, 32] returns the error "The
\* tree depth must be a number between 1 and 32" and does not panic; the
\* check comes first, so the result is the same when the identity is not in
\* the group or the message or scope is longer than 32 bytes, and neither
\* the key download nor the prover is called.
C16_DepthCheckedFirst ==
  (last.op = "generate_proof" /\ DepthOutOfRange(last.depth)) =>
    /\ last.res = "TreeDepthError"
    /\ last.msg = <<"The tree depth must be a number between ", to_string(1), " and ", to_string(32)>>
    /\ last.calls = <<>>
    /\ last.merkle_proof = NoProof
    /\ last.proof = NoSemaphoreProof

C16_Witness ==
  /\ last.op = "generate_proof"
  /\ last.depth = 33
  /\ ~IdentityInSource
  /\ Len(last.message) > WIDTH
  /\ Len(last.scope) > WIDTH
  /\ last.res = "TreeDepthError"
  /\ last.calls = <<>>

\* C17: verify_proof on a proof whose merkle_tree_depth is outside [1, 32]
\* panics with the message "The tree depth must be a number between 1 and
\* 32", before any key is fetched and before the Groth16 verifier is called.
C17_VerifyDepthPanicMessage ==
  (last.op = "verify_proof" /\ DepthOutOfRange(last.proof.merkle_tree_depth)) =>
    /\ last.res = "panic"
    /\ last.msg = <<"The tree depth must be a number between ", to_string(1), " and ", to_string(32)>>
    /\ last.calls = <<>>

\* what does hold of that panic: it comes before every external call
C17_VerifyDepthPanics ==
  (last.op = "verify_proof" /\ DepthOutOfRange(last.proof.merkle_tree_depth)) =>
    /\ last.res = "panic"
    /\ last.calls = <<>>

\* the big-endian integer of a byte string, last byte least significant
RECURSIVE BigEndian(_)
BigEndian(bytes) ==
  IF bytes = <<>> THEN 0
  ELSE 256 * BigEndian(SubSeq(bytes, 1, Len(bytes) - 1)) + bytes[Len(bytes)]

\* the integer of the 32-byte (here WIDTH) buffer that starts with str
LeftAligned(str) == BigEndian([k \in 1..WIDTH |-> IF k <= Len(str) THEN str[k] ELSE 0])

C18_WitnessShort ==
  /\ last.op = "generate_proof"
  /\ last.res = "Ok"
  /\ last.message = <<104>>
  /\ last.scope = <<0, 97>>
  /\ last.proof.message = 104 * 256
  /\ last.proof.scope = 97

\* C19: with a valid depth, generate_proof given a Group fails with "The
\* identity does not exist" exactly when index_of of the identity's
\* commitment element is None in the group (a removed leaf included) and
\* otherwise works with generate_proof of that index; given a MerkleProof it
\* makes no lookup and works with that proof unchanged.
C19_IdentityLookup ==
  (last.op = "generate_proof" /\ ~DepthOutOfRange(last.depth)) =>
    LET idx == index_of(last.source.group, to_element(last.identity.commitment))
        missing == last.res = "panic" /\ last.msg = <<"The identity does not exist">>
    IN /\ last.source.kind = "Group" =>
            /\ (idx = <<>>) <=> missing
            /\ idx # <<>> =>
                  last.merkle_proof = generate_proof(last.source.group, idx[1]).proof
       /\ last.source.kind = "MerkleProof" =>
            /\ ~missing
            /\ last.merkle_proof = last.source.proof

C19_Witness ==
  /\ last.op = "generate_proof"
  /\ last.depth = 2
  /\ last.source = FromGroup(GroupRemoved)
  /\ last.identity = Identity1
  /\ Commitment1 \notin {At(members(GroupRemoved), i) : i \in 0..(size(GroupRemoved) - 1)}
  /\ At(members(GroupOfBoth), 1) = Commitment1
  /\ last.res = "panic"
  /\ last.msg = <<"The identity does not exist">>

C19_WitnessFound ==
  /\ last.op = "generate_proof"
  /\ last.source = FromGroup(GroupRemoved)
  /\ last.identity = Identity2
  /\ last.res = "Ok"
  /\ last.merkle_proof = generate_proof(GroupRemoved, 0).proof
  /\ last.merkle_proof.leaf = Commitment2

C19_WitnessMerkleProof ==
  /\ last.op = "generate_proof"
  /\ last.source.kind = "MerkleProof"
  /\ last.source.proof.leaf = Commitment2
  /\ last.identity = Identity1
  /\ last.res = "Ok"
  /\ last.merkle_proof = last.source.proof

(***************************************************************************)
(* Signatures built with Signature::new and verified.                      *)
(***************************************************************************)
\* the signature points and scalars given to Signature::new
SignaturePoints == {OffCurve, GENERATOR, Identity1.public_key}
SignatureScalars == {0, 1, Identity1.secret_scalar}

\* Signature::new(r, s).verify(public_key, message)
VerifyNew(r, s, public_key, message) ==
  LET sig == [r |-> r, s |-> s]
      v == SignatureVerify(sig, public_key, message)
  IN /\ UNCHANGED files /\ group' = group
     /\ last' = [op |-> "verify_new", res |-> v.res, len |-> v.len, sig |-> sig,
                 public_key |-> public_key, verified |-> message]

SigErrorNext ==
  \/ \E key \in PrivateKeys, message \in Messages : SignMessage(key, message)
  \/ \E public_key \in PublicKeys, message \in Messages :
        VerifySignature(public_key, message)
  \/ \E r \in SignaturePoints, s \in SignatureScalars, public_key \in PublicKeys,
         message \in Messages :
        VerifyNew(r, s, public_key, message)

SpecSigErrors == Init /\ [][SigErrorNext]_vars

\* s * Base = R + 8c * pk, for points of the curve
EquationHolds(sig, public_key, message) ==
  LET c == Challenge(sig.r, public_key, message)
  IN PointMul(GENERATOR, sig.s)
       = PointAdd(sig.r, PointMul(public_key, (8 * c) % SUBGROUP_ORDER))

\* C20: Signature::verify reports MessageSizeExceeded(len) if the message
\* is longer than 32 bytes, else SignaturePointNotOnCurve if R is off the
\* curve, else PublicKeyNotOnCurve if the public key is off the curve, else
\* SignatureVerificationFailed if s*Base differs from R + 8c*pk; of several
\* conditions that hold at once the earliest in this order is reported.
C20_ErrorPriority ==
  last.op \in {"verify", "verify_new"} =>
    IF Len(last.verified) > WIDTH
    THEN last.res = "MessageSizeExceeded" /\ last.len = Len(last.verified)
    ELSE IF ~is_on_curve(last.sig.r) THEN last.res = "SignaturePointNotOnCurve"
    ELSE IF ~is_on_curve(last.public_key) THEN last.res = "PublicKeyNotOnCurve"
    ELSE IF ~EquationHolds(last.sig, last.public_key, last.verified)
    THEN last.res = "SignatureVerificationFailed"
    ELSE last.res = "Ok"

C20_Witness ==
  /\ last.op = "verify_new"
  /\ Len(last.verified) <= WIDTH
  /\ ~is_on_curve(last.sig.r)
  /\ ~is_on_curve(last.public_key)
  /\ last.res = "SignaturePointNotOnCurve"

C20_WitnessLong ==
  /\ last.op = "verify_new"
  /\ Len(last.verified) = WIDTH + 1
  /\ ~is_on_curve(last.sig.r)
  /\ ~is_on_curve(last.public_key)
  /\ last.res = "MessageSizeExceeded"
  /\ last.len = WIDTH + 1

C20_WitnessKey ==
  /\ last.op = "verify_new"
  /\ is_on_curve(last.sig.r)
  /\ ~is_on_curve(last.public_key)
  /\ last.res = "PublicKeyNotOnCurve"

C20_WitnessFailed ==
  /\ last.op = "verify_new"
  /\ last.res = "SignatureVerificationFailed"

C20_WitnessOk ==
  /\ last.op = "verify"
  /\ last.res = "Ok"

(***************************************************************************)
(* SemaphoreProof::import of documents that are no exported proof.         *)
(***************************************************************************)
\* what Map::get gives for a key the object does not have
JAbsent == [kind |-> "absent", value |-> <<>>]

ProofKeys == {"merkle_tree_depth", "merkle_tree_root", "message", "nullifier", "scope", "points"}

\* values written over a key: none, a number, the strings "x", "" and "12",
\* and arrays of 7 and 9 number strings and of 8 numbers
TamperValues ==
  {JAbsent, JNumber(1), JString(<<120>>), JString(<<>>), JString(<<49, 50>>),
   JArray([k \in 1..7 |-> JString(<<49>>)]), JArray([k \in 1..9 |-> JString(<<49>>)]),
   JArray([k \in 1..8 |-> JNumber(1)]), JArray([k \in 1..8 |-> JString(<<49>>)])}

ExportedSamples == {q \in SemaphoreProofs : q.merkle_tree_root = 907 /\ q.message = 10 /\ q.scope = 7}

\* SemaphoreProof::import of the exported document with one key overwritten
ImportTampered(key, value) ==
  /\ last.op = "proof_export"
  /\ last.res = "Ok"
  /\ UNCHANGED files /\ group' = group
  /\ LET json == [last.json EXCEPT ![key] = value]
         r == ProofImport(json)
     IN last' = [last EXCEPT !.op = "proof_import", !.res = r.res, !.json = json,
                             !.imported = r.proof]

\* SemaphoreProof::import of text that is no JSON object
ImportGarbage ==
  /\ last.op = "proof_export"
  /\ UNCHANGED files /\ group' = group
  /\ LET r == ProofImport(NotJson)
     IN last' = [last EXCEPT !.op = "proof_import", !.res = r.res, !.json = NotJson,
                             !.imported = r.proof]

ImportNext ==
  \/ \E p \in ExportedSamples : ExportProof(p)
  \/ \E key \in ProofKeys, value \in TamperValues : ImportTampered(key, value)
  \/ ImportGarbage

SpecImport == Init /\ [][ImportNext]_vars

\* a JSON object with the six keys of an exported proof, each of its type
ValidDocument(json) ==
  /\ json.kind = "object"
  /\ json.merkle_tree_depth.kind = "number"
  /\ \A key \in {"merkle_tree_root", "message", "nullifier", "scope"} :
        json[key].kind = "string" /\ IsDigits(json[key].value)
  /\ json.points.kind = "array"
  /\ Len(json.points.value) = 8
  /\ \A k \in 1..8 :
        json.points.value[k].kind = "string" /\ IsDigits(json.points.value[k].value)

\* C21: SemaphoreProof::import returns Err(SerializationError) for every
\* input that is not a valid exported proof (no JSON object, a missing key,
\* a value of the wrong JSON type, a number string that is not decimal, a
\* points array of a length other than 8) and never panics.
C21_ImportReturnsErrors ==
  /\ last.op = "proof_import" => last.res # "panic"
  /\ (last.op = "proof_import" /\ ~ValidDocument(last.json)) => last.res = "SerializationError"

\* what does hold: text that is no JSON object is a SerializationError, a
\* valid document is imported, and every other document panics
C21_ImportOutcomes ==
  last.op = "proof_import" =>
    last.res = IF last.json.kind # "object" THEN "SerializationError"
               ELSE IF ValidDocument(last.json) THEN "Ok" ELSE "panic"

(***************************************************************************)
(* One sequence of members given to Group::new, to add_members and, one    *)
(* by one, to add_member.                                                  *)
(***************************************************************************)
MaxBuild == 5   \* members of the sequence
BuildLeaves == {MEMBER1, MEMBER2, Commitment1}

\* group.add_member(m) on the group built so far; Group::new(ms) and
\* Group::default().add_members(ms) with ms the members added so far
AddEach(m) ==
  LET ms == Append(last.members, m)
      r == add_member(group, m)
  IN /\ last.op \in {"init", "add_each"}
     /\ Len(last.members) < MaxBuild
     /\ UNCHANGED files /\ group' = r.group
     /\ last' = [op |-> "add_each", res |-> r.res, members |-> ms,
                 new |-> GroupNew(ms), many |-> add_members(GroupDefault, ms)]

\* the same with no member at all
BuildNone ==
  /\ last.op = "init"
  /\ UNCHANGED files /\ group' = group
  /\ last' = [op |-> "add_none", res |-> "Ok", members |-> <<>>,
              new |-> GroupNew(<<>>), many |-> add_members(GroupDefault, <<>>)]

BuildNext ==
  \/ \E m \in BuildLeaves : AddEach(m)
  \/ BuildNone

SpecBuild == Init /\ [][BuildNext]_vars

SameGroup(g, h) ==
  /\ root(g) = root(h)
  /\ depth(g) = depth(h)
  /\ size(g) = size(h)
  /\ members(g) = members(h)

\* C22: for every non-empty sequence ms of non-zero elements, Group::new(ms)
\* has the same root, depth, size and members as the empty group to which
\* the elements of ms are added one by one with add_member, and as the
\* empty group on which add_members(ms) is called once.
C22_NewIsAddEach ==
  last.op = "add_each" =>
    /\ last.res = "Ok"
    /\ last.new.res = "Ok"
    /\ last.many.res = "Ok"
    /\ SameGroup(last.new.group, group)
    /\ SameGroup(last.new.group, last.many.group)
    /\ members(group) = last.members

C22_Witness ==
  /\ last.op = "add_each"
  /\ last.members = <<MEMBER1, MEMBER2, Commitment1, MEMBER1, MEMBER2>>
  /\ depth(last.new.group) = 3
  /\ size(group) = 5
  /\ root(last.new.group) = root(group)
  /\ root(group) = root(last.many.group)

(***************************************************************************)
(* Conversions between bytes, Elements and Fq (src/src/group.rs).  An      *)
(* Element <<n>> stands for the WIDTH little-endian bytes of n.            *)
(***************************************************************************)
\* A faulty bytes_to_element: the bytes are copied to the end of the element.
bytes_to_element_at_end(bytes) ==
  IF Len(bytes) > WIDTH
  THEN [res |-> "InputSizeExceeded", len |-> Len(bytes), element |-> EMPTY_ELEMENT]
  ELSE [res |-> "Ok", len |-> 0,
        element |-> <<FromBytesLe(Zeros(WIDTH - Len(bytes)) \o bytes)>>]

\* bytes_to_element
bytes_to_element(bytes) ==
  IF Len(bytes) > WIDTH
  THEN [res |-> "InputSizeExceeded", len |-> Len(bytes), element |-> EMPTY_ELEMENT]
  ELSE [res |-> "Ok", len |-> 0,
        element |-> <<FromBytesLe(bytes \o Zeros(WIDTH - Len(bytes)))>>]

\* fq_to_element: the little-endian bytes of the value, which is below q
fq_to_element(fq) == IF IsRaw(fq) THEN <<FromBytesLe(ToBytesLeN(fq[1], WIDTH))>> ELSE fq

ByteValues == {0, 1, 47, 48, 255}
ByteStrings == SeqsUpTo(ByteValues, WIDTH + 1)

\* test_conversions: bytes to an element, to Fq and back to an element
Convert(bytes) ==
  LET r == bytes_to_element(bytes)
      fq == element_to_fq(r.element)
  IN /\ UNCHANGED files /\ group' = group
     /\ last' = [op |-> "convert", res |-> r.res, len |-> r.len, bytes |-> bytes,
                 element |-> r.element, fq |-> fq, element_back |-> fq_to_element(fq)]

ConvertNext == \E bytes \in ByteStrings : Convert(bytes)

SpecConvert == Init /\ [][ConvertNext]_vars

\* C23 as stated: for every byte string b of at most 32 bytes and e =
\* bytes_to_element(b), fq_to_element(element_to_fq(e)) is e and
\* element_to_fq(e) is from_le_bytes_mod_order(b); more than 32 bytes give
\* Err(InputSizeExceeded(n)).
C23_RoundTripAllBytes ==
  last.op = "convert" =>
    IF Len(last.bytes) > WIDTH
    THEN last.res = "InputSizeExceeded" /\ last.len = Len(last.bytes)
    ELSE /\ last.res = "Ok"
         /\ last.element_back = last.element
         /\ last.fq = <<FromLeMod(last.bytes, Q)>>

\* C23, amended: the element comes back only for byte strings whose
\* little-endian integer is below the field order q; for the others the
\* element of that integer reduced modulo q comes back.
C23_RoundTripBelowModulus ==
  last.op = "convert" =>
    IF Len(last.bytes) > WIDTH
    THEN last.res = "InputSizeExceeded" /\ last.len = Len(last.bytes)
    ELSE /\ last.res = "Ok"
         /\ FromBytesLe(last.bytes) < Q => last.element_back = last.element
         /\ FromBytesLe(last.bytes) >= Q =>
               /\ last.element_back # last.element
               /\ last.element_back = <<FromBytesLe(last.bytes) % Q>>
         /\ last.fq = <<FromLeMod(last.bytes, Q)>>

C23_Witness ==
  /\ last.op = "convert"
  /\ last.bytes = <<0, 48>>
  /\ last.res = "Ok"
  /\ last.element = <<Q - 1>>
  /\ last.element_back = last.element

C23_WitnessShort ==
  /\ last.op = "convert"
  /\ last.bytes = <<47>>
  /\ last.element = <<47>>
  /\ last.element_back = <<47>>

C23_WitnessLong ==
  /\ last.op = "convert"
  /\ Len(last.bytes) = WIDTH + 1
  /\ last.res = "InputSizeExceeded"
  /\ last.len = WIDTH + 1

(***************************************************************************)
(* A signature verified against other messages.                            *)
(***************************************************************************)
\* verify of the signature of last.message against the signer's key and
\* another message of at most 32 bytes
OtherMessage ==
  /\ last.op = "verify"
  /\ last.public_key = last.identity.public_key
  /\ Len(last.verified) <= WIDTH
  /\ last.verified # last.message

\* C24 as stated: a signature made by sign_message(m) is rejected with
\* SignatureVerificationFailed for every other message m' of at most 32
\* bytes.
C24_OtherMessageRejected ==
  OtherMessage => last.res = "SignatureVerificationFailed"

\* C24, amended: it is rejected for every m' whose big-endian integer
\* differs from that of m modulo q, and accepted for every m' whose integer
\* is the same modulo q (m with zero bytes put in front or taken away).
C24_OtherValueRejected ==
  OtherMessage =>
    IF FromBeMod(last.verified, Q) # FromBeMod(last.message, Q)
    THEN last.res = "SignatureVerificationFailed"
    ELSE last.res = "Ok"

C24_Witness ==
  /\ OtherMessage
  /\ last.message = <<1>>
  /\ last.verified = <<1, 0>>
  /\ last.res = "SignatureVerificationFailed"

C24_WitnessSameValue ==
  /\ OtherMessage
  /\ last.message = <<1>>
  /\ last.verified = <<0, 1>>
  /\ last.res = "Ok"

(***************************************************************************)
(* A Merkle proof of another leaf.                                         *)
(***************************************************************************)
\* a run given a MerkleProof of a leaf that is not the identity's
\* commitment, with a depth, message and scope a run can succeed with
WrongLeafCase ==
  /\ last.source.kind = "MerkleProof"
  /\ last.source.proof.leaf # to_element(last.identity.commitment)
  /\ ~DepthOutOfRange(last.depth)
  /\ last.depth >= Len(last.source.proof.siblings)
  /\ Len(last.message) <= WIDTH
  /\ Len(last.scope) <= WIDTH

ReachedProver == last.op = "generate_proof" /\ \E i \in DOMAIN last.calls : last.calls[i] = "prove"

\* C26: in every call of generate_proof that reaches the prover, the
\* witness has merkleProofSiblings of exactly depth entries: the first L are
\* the siblings of the resolved Merkle proof in order, the other depth - L
\* are the empty element, L = merkleProofLength being the number of
\* siblings of that proof; no sibling is dropped.
C26_SiblingsPadded ==
  ReachedProver =>
    LET siblings == last.merkle_proof.siblings
        L == last.inputs.merkleProofLength
    IN /\ L = Len(siblings)
       /\ Len(last.inputs.merkleProofSiblings) = last.depth
       /\ L <= last.depth
       /\ \A k \in 1..L : last.inputs.merkleProofSiblings[k] = siblings[k]
       /\ \A k \in (L + 1)..last.depth : last.inputs.merkleProofSiblings[k] = EMPTY_ELEMENT

\* what does hold: depth entries, the siblings that fit and empty elements
\* after them, while merkleProofLength counts every sibling
C26_SiblingsCutOrPadded ==
  ReachedProver =>
    LET siblings == last.merkle_proof.siblings
    IN /\ last.inputs.merkleProofLength = Len(siblings)
       /\ Len(last.inputs.merkleProofSiblings) = last.depth
       /\ \A k \in 1..last.depth :
             last.inputs.merkleProofSiblings[k] =
               IF k <= Len(siblings) THEN siblings[k] ELSE EMPTY_ELEMENT

(***************************************************************************)
(* The two secrets of an identity, over many private keys.                 *)
(***************************************************************************)
KeyBytes == {0, 7, 112, 255}
KeyStrings == SeqsUpTo(KeyBytes, 3)
KeyMessages == {<<>>, <<104, 105>>}

\* Signature::verify of the signature just made against the signer's own key
VerifyOwn(message) ==
  /\ last.op = "sign_message"
  /\ last.res = "Ok"
  /\ VerifySignature(last.identity.public_key, message)

KeyNext ==
  \/ \E key \in KeyStrings, message \in KeyMessages : SignMessage(key, message)
  \/ \E message \in KeyMessages : VerifyOwn(message)

SpecKeys == Init /\ [][KeyNext]_vars

\* the clamped first 32 hash bytes of the last identity, read little-endian
ClampedHash == FromBytesLe(SubSeq(Prune(blake_512(last.identity.private_key)), 1, WIDTH))

\* C27: for every private key the clamped first 32 hash bytes, read as a
\* little-endian integer h, are a multiple of 8, so the secret scalar
\* (h >> 3 mod l) and the signing secret (h mod l) satisfy 8 * secretScalar
\* = signingSecret (mod l); so the verifier's challenge times 8 matches the
\* signer's s = k + c * signingSecret.
C27_CofactorRelation ==
  last.op \in {"sign_message", "verify"} =>
    LET signing == ClampedHash % SUBGROUP_ORDER
        secret == last.identity.secret_scalar
        c == Challenge(last.sig.r, last.identity.public_key, last.message)
    IN /\ ClampedHash % 8 = 0
       /\ secret = (ClampedHash \div 8) % SUBGROUP_ORDER
       /\ (8 * secret) % SUBGROUP_ORDER = signing
       /\ PointMul(last.identity.public_key, 8) = PointMul(GENERATOR, signing)
       /\ last.res = "Ok" /\ last.op = "sign_message" =>
             PointMul(GENERATOR, last.sig.s)
               = PointAdd(last.sig.r, PointMul(PointMul(GENERATOR, signing), c))
       /\ (last.op = "verify" /\ last.verified = last.message) => last.res = "Ok"

C27_Witness ==
  /\ last.op = "verify"
  /\ last.identity.private_key = <<7, 112, 255>>
  /\ last.verified = last.message
  /\ last.res = "Ok"
  /\ ClampedHash % SUBGROUP_ORDER # 0
  /\ ClampedHash >= 8 * SUBGROUP_ORDER
  /\ (8 * last.identity.secret_scalar) % SUBGROUP_ORDER = ClampedHash % SUBGROUP_ORDER

(***************************************************************************)
(* The bytes given to Keccak-256.                                          *)
(***************************************************************************)
\* the byte string inside a value of hash
KeccakInput(h) == h[2][2]

\* the 32-byte (here WIDTH) big-endian encoding of an integer
BigEndianBuffer(n) == [k \in 1..WIDTH |-> (n \div Pow256(WIDTH - k)) % 256]

\* C28: for every message or scope string s of at most 32 bytes the bytes
\* that hash(to_big_uint(s)) gives to Keccak-256 are the 32-byte buffer
\* built by to_big_uint, always 32 bytes long with its leading zero bytes
\* kept; in verify_proof the Keccak input of proof.message and proof.scope
\* is their 32-byte big-endian encoding.
C28_KeccakInputIsBuffer ==
  /\ ReachedProver =>
        /\ KeccakInput(last.inputs.scope) = Padded(last.scope)
        /\ KeccakInput(last.inputs.message) = Padded(last.message)
        /\ Len(KeccakInput(last.inputs.scope)) = WIDTH
        /\ Len(KeccakInput(last.inputs.message)) = WIDTH
  /\ (last.op = "verify_proof" /\ last.res \in {"true", "false"}) =>
        /\ KeccakInput(hash(last.proof.scope)) = BigEndianBuffer(last.proof.scope)
        /\ KeccakInput(hash(last.proof.message)) = BigEndianBuffer(last.proof.message)

\* what does hold: Keccak is given the shortest big-endian bytes of the
\* integer, the buffer without its leading zero bytes (one zero byte for 0)
C28_KeccakInputIsShortest ==
  ReachedProver =>
    \A str \in {last.scope, last.message} :
      LET input == KeccakInput(hash(to_big_uint(str).value))
          buffer == Padded(str)
      IN /\ Len(input) <= WIDTH
         /\ input = SubSeq(buffer, WIDTH - Len(input) + 1, WIDTH)
         /\ \A k \in 1..(WIDTH - Len(input)) : buffer[k] = 0
         /\ (Len(input) > 1 => input[1] # 0)
         /\ (str # <<>> /\ str[1] # 0) => input = buffer

(***************************************************************************)
(* utils::download_zkey (src/src/utils.rs).                                *)
(***************************************************************************)
\* what the network and the disk do during one call
Transfers == {"ok", "send_fails", "create_fails", "copy_fails"}

\* download_zkey: an existing file is returned as it is; otherwise the GET
\* is sent, the file is created and the response copied into it, each step
\* returning its error with ?.  fetched tells whether a GET was sent.
download_zkey(fs, tree_depth, transfer) ==
  LET path == <<"semaphore-", to_string(tree_depth), ".zkey">>
  IN IF fs.temp_dir[tree_depth].exists
     THEN [res |-> "Ok", path |-> path, fetched |-> FALSE, files |-> fs]
     ELSE IF transfer = "send_fails"
     THEN [res |-> "Err", path |-> <<>>, fetched |-> TRUE, files |-> fs]
     ELSE IF transfer = "create_fails"
     THEN [res |-> "Err", path |-> <<>>, fetched |-> TRUE, files |-> fs]
     ELSE IF transfer = "copy_fails"
     THEN [res |-> "Err", path |-> <<>>, fetched |-> TRUE,
           files |-> [fs EXCEPT !.temp_dir[tree_depth] = File(tree_depth, FALSE)]]
     ELSE [res |-> "Ok", path |-> path, fetched |-> TRUE,
           files |-> [fs EXCEPT !.temp_dir[tree_depth] = File(tree_depth, TRUE)]]

DownloadZkey(tree_depth, transfer) ==
  LET r == download_zkey(files, tree_depth, transfer)
  IN /\ group' = group
     /\ files' = r.files
     /\ last' = [op |-> "download_zkey", res |-> r.res, depth |-> tree_depth,
                 path |-> r.path, fetched |-> r.fetched,
                 found |-> files.temp_dir[tree_depth]]

DownloadNext == \E tree_depth \in ArtifactDepths, transfer \in Transfers : DownloadZkey(tree_depth, transfer)

SpecDownload == Init /\ [][DownloadNext]_vars

\* C29: download_zkey(depth) returns Ok(path) only when the file at path is
\* a complete copy of semaphore-{depth}.zkey: after a call that failed while
\* the response was being copied to disk, a later call for the same depth
\* downloads the artifact again and does not return the partly written file.
C29_OkIsCompleteFile ==
  last.op = "download_zkey" =>
    /\ last.res = "Ok" => files.temp_dir[last.depth] = File(last.depth, TRUE)
    /\ (last.found.exists /\ ~last.found.complete) => last.fetched

\* what does hold: Ok is returned for a file that exists, whole or not, and
\* a file that exists is never fetched again
C29_OkIsExistingFile ==
  last.op = "download_zkey" =>
    /\ last.res = "Ok" => files.temp_dir[last.depth].exists
    /\ last.found.exists => (~last.fetched /\ last.res = "Ok" /\ files.temp_dir[last.depth] = last.found)
    /\ files.temp_dir[last.depth].exists => files.temp_dir[last.depth].of = last.depth

(***************************************************************************)
(* The build script (src/build.rs).                                        *)
(***************************************************************************)
\* what the two downloads of one run do: both work, or the first or the
\* second fails when it is sent or while it is copied to disk
BuildTransfers == {"ok", "wasm_send_fails", "wasm_copy_fails", "zkey_send_fails", "zkey_copy_fails"}

\* download_semaphore_artifacts: skipped when ./zkey/depth holds the
\* requested depth; otherwise semaphore.wasm, then semaphore.zkey are
\* written over, and ./zkey/depth is written after both
download_semaphore_artifacts(fs, tree_depth, transfer) ==
  IF fs.depth = <<tree_depth>>
  THEN [res |-> "Ok", skipped |-> TRUE, files |-> fs]
  ELSE IF transfer = "wasm_send_fails"
  THEN [res |-> "Err", skipped |-> FALSE, files |-> fs]
  ELSE IF transfer = "wasm_copy_fails"
  THEN [res |-> "Err", skipped |-> FALSE,
        files |-> [fs EXCEPT !.wasm = File(tree_depth, FALSE)]]
  ELSE IF transfer = "zkey_send_fails"
  THEN [res |-> "Err", skipped |-> FALSE,
        files |-> [fs EXCEPT !.wasm = File(tree_depth, TRUE)]]
  ELSE IF transfer = "zkey_copy_fails"
  THEN [res |-> "Err", skipped |-> FALSE,
        files |-> [fs EXCEPT !.wasm = File(tree_depth, TRUE),
                             !.zkey = File(tree_depth, FALSE)]]
  ELSE [res |-> "Ok", skipped |-> FALSE,
        files |-> [fs EXCEPT !.wasm = File(tree_depth, TRUE),
                             !.zkey = File(tree_depth, TRUE),
                             !.depth = <<tree_depth>>]]

\* main with SEMAPHORE_DEPTH = tree_depth; expect panics on an error
BuildScript(tree_depth, transfer) ==
  LET r == download_semaphore_artifacts(files, tree_depth, transfer)
  IN /\ group' = group
     /\ files' = r.files
     /\ last' = [op |-> "build", res |-> IF r.res = "Ok" THEN "Ok" ELSE "panic",
                 depth |-> tree_depth, skipped |-> r.skipped]

BuildScriptNext == \E tree_depth \in ArtifactDepths, transfer \in BuildTransfers : BuildScript(tree_depth, transfer)

SpecBuildScript == Init /\ [][BuildScriptNext]_vars

\* C30: over any sequence of build-script runs with any SEMAPHORE_DEPTH
\* values, each run possibly failing at either download, whenever a run
\* finds ./zkey/depth equal to its depth D and skips downloading, the files
\* semaphore.wasm and semaphore.zkey are both the artifacts of depth D.
C30_SkipMeansArtifacts ==
  (last.op = "build" /\ last.skipped) =>
    /\ files.wasm = File(last.depth, TRUE)
    /\ files.zkey = File(last.depth, TRUE)

\* what does hold: a skipping run found its depth recorded, by an earlier
\* run that wrote both artifacts of that depth, and changes nothing
C30_SkipMeansRecorded ==
  (last.op = "build" /\ last.skipped) =>
    /\ files.depth = <<last.depth>>
    /\ files.wasm.exists
    /\ files.zkey.exists
    /\ last.res = "Ok"

====
